---- MODULE Spec2Model ----
(***************************************************************************)
(* SatMap / SatCore: the time-stepped simulation engine runSimulation      *)
(* (simulationEngine.ts).  The engine initialises the Beacon record,       *)
(* awaits the Iridium element sets, then iterates the step loop: Beacon    *)
(* propagation, per-satellite propagation and link evaluation, handshake   *)
(* detection against the previous step's link set, the global blackout     *)
(* state, and finally the closing of an open blackout and the totals.      *)
(*                                                                         *)
(* Times are Unix milliseconds.  simulationDurationHours is a real number  *)
(* of hours in the source; here it is a fixed-point value counted in       *)
(* units of 1/HourDenominator hour, so that fractional durations (which    *)
(* the input form accepts) are covered with integers.                      *)
(*                                                                         *)
(* The answers of the SGP4 propagator and of the cone / occultation tests  *)
(* are inputs of each step; propagationLog remembers what they were at     *)
(* each iterated instant.                                                  *)
(*                                                                         *)
(* The library functions the engine calls are then modelled on their own,  *)
(* each with its own specification over the variable call: the geometry    *)
(* (isLineOfSightClear, isPointInCone, the link decision of one step),     *)
(* the synthesis of the Beacon record, and parseTleFile.                   *)
(***************************************************************************)
EXTENDS Integers, Sequences, FiniteSets, TLC

\* ---------------------------------------------------------------- bounds
MaxSats == 2          \* longest list of fetched element sets
MaxDuration == 4      \* longest simulationDurationHours, in 1/3600 hour
MaxTimeStep == 3      \* longest simulationTimeStepSec (the shortest is 2)

HourDenominator == 3600

Names == {"IRIDIUM 7", "IRIDIUM 106"}
StartTimes == {500}

\* ------------------------------------------------------------- variables
VARIABLES
    pc,                               \* position inside runSimulation
    config,                           \* SimulationConfig
    startTime,                        \* startTime.getTime()
    iridiumSatRecs,                   \* ids of the initialised records, in order
    currentTime,
    simulationStepCounter,
    totalHandshakes,
    handshakeLog,
    blackoutPeriods,
    beaconTrack,
    iridiumTracks,
    activeLinksLog,
    previousConnectedIridiumSatIds,
    currentBlackout,
    results,
    thrown,                           \* the Error runSimulation rejected with, or null
    propagationLog,                   \* what the propagator answered, per iterated instant
    iridiumTLEs,                      \* what fetchIridiumTLEs resolved with, null before
    beaconSatRec,                     \* the Beacon's record, null before and on failure
    call                              \* a library function under examination: arguments,
                                      \* locals and return value (null while runSimulation runs)

vars == <<pc, config, startTime, iridiumSatRecs, currentTime,
          simulationStepCounter, totalHandshakes, handshakeLog,
          blackoutPeriods, beaconTrack, iridiumTracks, activeLinksLog,
          previousConnectedIridiumSatIds, currentBlackout, results,
          thrown, propagationLog, iridiumTLEs, beaconSatRec, call>>

\* a nullable value is the empty set (null) or the singleton of its value
null == {}
Some(x) == {x}
valueOf(opt) == CHOOSE x \in opt : TRUE

\* ------------------------------------------------------------- helpers
RECURSIVE SeqsUpTo(_, _)
SeqsUpTo(S, n) ==
    IF n = 0 THEN {<<>>}
    ELSE LET shorter == SeqsUpTo(S, n - 1)
         IN  shorter \cup {Append(s, x) : s \in {t \in shorter : Len(t) = n - 1}, x \in S}

RECURSIVE SumDurations(_)
SumDurations(periods) ==
    IF periods = <<>> THEN 0
    ELSE periods[1].duration + SumDurations(Tail(periods))

Configs ==
    [simulationDurationHours : 0..MaxDuration,
     simulationTimeStepSec   : 2..MaxTimeStep]

simulationDurationMs == (config.simulationDurationHours * 60 * 60 * 1000) \div HourDenominator
timeStepMs == config.simulationTimeStepSec * 1000
endTime == startTime + simulationDurationMs

\* fetched element sets: a name and whether initializeSatrecFromTLE accepts it
FetchedTLEs == SeqsUpTo([name : Names, initOk : BOOLEAN], MaxSats)

\* lines 68-70: map to {id, rec}, keep the records that initialised
initializedSatRecs(tles) ==
    LET RECURSIVE keep(_)
        keep(s) == IF s = <<>> THEN <<>>
                   ELSE IF s[1].initOk THEN <<s[1].name>> \o keep(Tail(s))
                   ELSE keep(Tail(s))
    IN keep(tles)

\* answer of one Iridium satellite at one step: propagation failed, or it
\* succeeded and the mode's cone test and the occultation test gave canCommunicate
IridiumOutcomes == {"fail", "nolink", "link"}
propagationOk(o) == o # "fail"
canCommunicate(o) == o = "link"

SatellitePosition(t) == [timestamp |-> t]
Handshake(t, id) == [timestamp |-> t, iridiumSatelliteId |-> id]
BlackoutPeriod(s, e) == [startTime |-> s, endTime |-> e, duration |-> (e - s) \div 1000]

\* ------------------------------------------------- the per-satellite loop
\* line 112: the loop condition
loopCondition_exclusive == currentTime < endTime
loopCondition == currentTime <= endTime

\* line 225: a link is new when the previous processed step did not have it
isNewLink_always(id) == TRUE
isNewLink(id) == id \notin previousConnectedIridiumSatIds

\* lines 146-235, over iridiumSatRecs[i..], st carrying the step's locals
RECURSIVE forEachIridiumSat(_, _, _)

\* lines 150-153: `continue` goes on with the next satellite of the list
propagationFailed_break(i, outcomes, st) == st
propagationFailed_keepsPreviousLink(i, outcomes, st) ==
    forEachIridiumSat(i + 1, outcomes,
        IF iridiumSatRecs[i] \in previousConnectedIridiumSatIds
        THEN [st EXCEPT !.inComm = TRUE, !.connected = @ \cup {iridiumSatRecs[i]}]
        ELSE st)
propagationFailed(i, outcomes, st) == forEachIridiumSat(i + 1, outcomes, st)

forEachIridiumSat(i, outcomes, st) ==
    IF i > Len(iridiumSatRecs) THEN st
    ELSE
      LET id == iridiumSatRecs[i]
          o  == outcomes[i]
      IN IF ~propagationOk(o)
         THEN propagationFailed(i, outcomes, st)
         ELSE
           LET tracked == [st EXCEPT !.tracks[id] = Append(@, SatellitePosition(currentTime))]
           IN IF canCommunicate(o)
              THEN LET isNew == isNewLink(id)
                   IN forEachIridiumSat(i + 1, outcomes,
                        [tracked EXCEPT
                           !.inComm = TRUE,
                           !.connected = @ \cup {id},
                           !.total = IF isNew THEN @ + 1 ELSE @,
                           !.log = IF isNew THEN Append(@, Handshake(currentTime, id)) ELSE @])
              ELSE forEachIridiumSat(i + 1, outcomes, tracked)

\* lines 240-254
blackoutAfterStep_restart(inComm) ==
    IF ~inComm
    THEN [cb |-> Some([startTime |-> currentTime]), periods |-> blackoutPeriods]
    ELSE IF currentBlackout # null
         THEN [cb |-> null,
               periods |-> Append(blackoutPeriods,
                                  BlackoutPeriod(valueOf(currentBlackout).startTime, currentTime))]
         ELSE [cb |-> currentBlackout, periods |-> blackoutPeriods]

blackoutAfterStep_keepsOpen(inComm) ==
    IF ~inComm
    THEN IF currentBlackout = null
         THEN [cb |-> Some([startTime |-> currentTime]), periods |-> blackoutPeriods]
         ELSE [cb |-> currentBlackout, periods |-> blackoutPeriods]
    ELSE [cb |-> currentBlackout, periods |-> blackoutPeriods]

blackoutAfterStep_closesEveryStep(inComm) ==
    IF currentBlackout # null
    THEN [cb |-> IF inComm THEN null ELSE Some([startTime |-> currentTime]),
          periods |-> Append(blackoutPeriods,
                             BlackoutPeriod(valueOf(currentBlackout).startTime, currentTime))]
    ELSE IF ~inComm
         THEN [cb |-> Some([startTime |-> currentTime]), periods |-> blackoutPeriods]
         ELSE [cb |-> currentBlackout, periods |-> blackoutPeriods]

blackoutAfterStep(inComm) ==
    IF ~inComm
    THEN IF currentBlackout = null
         THEN [cb |-> Some([startTime |-> currentTime]), periods |-> blackoutPeriods]
         ELSE [cb |-> currentBlackout, periods |-> blackoutPeriods]
    ELSE IF currentBlackout # null
         THEN [cb |-> null,
               periods |-> Append(blackoutPeriods,
                                  BlackoutPeriod(valueOf(currentBlackout).startTime, currentTime))]
         ELSE [cb |-> currentBlackout, periods |-> blackoutPeriods]

\* lines 259-267
finalBlackoutPeriods_atEndTime ==
    IF currentBlackout # null
    THEN Append(blackoutPeriods, BlackoutPeriod(valueOf(currentBlackout).startTime, endTime))
    ELSE blackoutPeriods

finalBlackoutPeriods_leftOpen == blackoutPeriods

finalBlackoutPeriods ==
    IF currentBlackout # null
    THEN Append(blackoutPeriods, BlackoutPeriod(valueOf(currentBlackout).startTime, currentTime))
    ELSE blackoutPeriods

\* lines 269-286
SimulationResults_totalBeforeClosing(periods) ==
    LET total == SumDurations(blackoutPeriods)
        n     == Len(periods)
    IN [totalHandshakes         |-> totalHandshakes,
        handshakeLog            |-> handshakeLog,
        activeLinksLog          |-> activeLinksLog,
        blackoutPeriods         |-> periods,
        totalBlackoutDuration   |-> total,
        averageBlackoutDuration |-> IF n > 0 THEN <<total, n>> ELSE <<0, 1>>,
        numberOfBlackouts       |-> n,
        beaconTrack             |-> beaconTrack,
        iridiumTracks           |-> iridiumTracks]

SimulationResults(periods) ==
    LET total == SumDurations(periods)
        n     == Len(periods)
    IN [totalHandshakes         |-> totalHandshakes,
        handshakeLog            |-> handshakeLog,
        activeLinksLog          |-> activeLinksLog,
        blackoutPeriods         |-> periods,
        totalBlackoutDuration   |-> total,
        \* a real quotient in the source; kept as the pair it is the quotient of
        averageBlackoutDuration |-> IF n > 0 THEN <<total, n>> ELSE <<0, 1>>,
        numberOfBlackouts       |-> n,
        beaconTrack             |-> beaconTrack,
        iridiumTracks           |-> iridiumTracks]

\* ------------------------------------------------------------------ Init
Init ==
    /\ pc = "start"
    /\ config \in Configs
    /\ startTime \in StartTimes
    /\ iridiumSatRecs = <<>>
    /\ currentTime = startTime
    /\ simulationStepCounter = 0
    /\ totalHandshakes = 0
    /\ handshakeLog = <<>>
    /\ blackoutPeriods = <<>>
    /\ beaconTrack = <<>>
    /\ iridiumTracks = <<>>
    /\ activeLinksLog = <<>>
    /\ previousConnectedIridiumSatIds = {}
    /\ currentBlackout = null
    /\ results = null
    /\ thrown = null
    /\ propagationLog = <<>>
    /\ iridiumTLEs = null
    /\ beaconSatRec = null
    /\ call = null

loopState == <<currentTime, simulationStepCounter, totalHandshakes, handshakeLog,
               blackoutPeriods, beaconTrack, iridiumTracks, activeLinksLog,
               previousConnectedIridiumSatIds, currentBlackout, propagationLog>>

\* --------------------------------------------------------------- actions
\* lines 46-58: the Beacon record is created, or the run aborts
BeaconInitialized ==
    /\ pc = "start"
    /\ beaconSatRec' = Some("BEACON")
    /\ pc' = "fetching"
    /\ UNCHANGED <<call, iridiumTLEs, config, startTime, iridiumSatRecs, results, thrown, loopState>>

BeaconInitFailed ==
    /\ pc = "start"
    /\ pc' = "aborted"
    /\ thrown' = Some("Failed to initialize Beacon satellite record")
    /\ UNCHANGED <<call, beaconSatRec, iridiumTLEs, config, startTime, iridiumSatRecs, results, loopState>>

\* lines 61-65: the awaited fetch resolves with no element set
FetchedNothing ==
    /\ pc = "fetching"
    /\ pc' = "aborted"
    /\ thrown' = Some("No Iridium TLEs fetched")
    /\ iridiumTLEs' = Some(<<>>)
    /\ UNCHANGED <<call, beaconSatRec, config, startTime, iridiumSatRecs, results, loopState>>

\* lines 61-76: the fetch resolves with element sets, none of which initialises
NoSatRecInitialized_startsLoop ==
    /\ pc = "fetching"
    /\ \E tles \in FetchedTLEs :
         /\ Len(tles) > 0
         /\ initializedSatRecs(tles) = <<>>
         /\ iridiumTLEs' = Some(tles)
    /\ pc' = "loop"
    /\ UNCHANGED <<call, beaconSatRec, config, startTime, iridiumSatRecs, results, thrown,
                   loopState>>

NoSatRecInitialized ==
    /\ pc = "fetching"
    /\ \E tles \in FetchedTLEs :
         /\ Len(tles) > 0
         /\ initializedSatRecs(tles) = <<>>
         /\ iridiumTLEs' = Some(tles)
    /\ pc' = "aborted"
    /\ thrown' = Some("Failed to initialize any Iridium SatRecs")
    /\ UNCHANGED <<call, beaconSatRec, config, startTime, iridiumSatRecs, results, loopState>>

\* lines 61-109: the fetch resolves, records initialise, loop variables are set
FetchedAndInitialized ==
    /\ pc = "fetching"
    /\ \E tles \in FetchedTLEs :
         /\ initializedSatRecs(tles) # <<>>
         /\ iridiumSatRecs' = initializedSatRecs(tles)
         /\ iridiumTLEs' = Some(tles)
    /\ iridiumTracks' = [id \in {iridiumSatRecs'[i] : i \in 1..Len(iridiumSatRecs')} |-> <<>>]
    /\ pc' = "loop"
    /\ UNCHANGED <<call, beaconSatRec, config, startTime, results, thrown, currentTime, simulationStepCounter,
                   totalHandshakes, handshakeLog, blackoutPeriods, beaconTrack,
                   activeLinksLog, previousConnectedIridiumSatIds, currentBlackout,
                   propagationLog>>

\* lines 112-124: an iteration in which Beacon propagation fails
StepBeaconFailed_logsEmptySet ==
    /\ pc = "loop"
    /\ loopCondition
    /\ simulationStepCounter' = simulationStepCounter + 1
    /\ propagationLog' = Append(propagationLog,
                                [time |-> currentTime, beacon |-> FALSE, iridium |-> <<>>])
    /\ activeLinksLog' = Append(activeLinksLog, {})
    /\ currentTime' = currentTime + timeStepMs
    /\ UNCHANGED <<call, beaconSatRec, iridiumTLEs, pc, config, startTime, iridiumSatRecs, results, thrown, totalHandshakes,
                   handshakeLog, blackoutPeriods, beaconTrack, iridiumTracks,
                   previousConnectedIridiumSatIds, currentBlackout>>

StepBeaconFailed_dropsLinks ==
    /\ pc = "loop"
    /\ loopCondition
    /\ simulationStepCounter' = simulationStepCounter + 1
    /\ propagationLog' = Append(propagationLog,
                                [time |-> currentTime, beacon |-> FALSE, iridium |-> <<>>])
    /\ previousConnectedIridiumSatIds' = {}
    /\ currentTime' = currentTime + timeStepMs
    /\ UNCHANGED <<call, beaconSatRec, iridiumTLEs, pc, config, startTime, iridiumSatRecs, results, thrown, totalHandshakes,
                   handshakeLog, blackoutPeriods, beaconTrack, iridiumTracks,
                   activeLinksLog, currentBlackout>>

StepBeaconFailed ==
    /\ pc = "loop"
    /\ loopCondition
    /\ simulationStepCounter' = simulationStepCounter + 1
    /\ propagationLog' = Append(propagationLog,
                                [time |-> currentTime, beacon |-> FALSE, iridium |-> <<>>])
    /\ currentTime' = currentTime + timeStepMs
    /\ UNCHANGED <<call, beaconSatRec, iridiumTLEs, pc, config, startTime, iridiumSatRecs, results, thrown, totalHandshakes,
                   handshakeLog, blackoutPeriods, beaconTrack, iridiumTracks,
                   activeLinksLog, previousConnectedIridiumSatIds, currentBlackout>>

\* lines 112-257: an iteration in which Beacon propagation succeeds
StepProcessed ==
    /\ pc = "loop"
    /\ loopCondition
    /\ \E outcomes \in [1..Len(iridiumSatRecs) -> IridiumOutcomes] :
         LET st == forEachIridiumSat(1, outcomes,
                      [tracks |-> iridiumTracks, connected |-> {}, inComm |-> FALSE,
                       total |-> totalHandshakes, log |-> handshakeLog])
             bo == blackoutAfterStep(st.inComm)
         IN /\ simulationStepCounter' = simulationStepCounter + 1
            /\ propagationLog' = Append(propagationLog,
                                        [time |-> currentTime, beacon |-> TRUE,
                                         iridium |-> outcomes])
            /\ beaconTrack' = Append(beaconTrack, SatellitePosition(currentTime))
            /\ iridiumTracks' = st.tracks
            /\ totalHandshakes' = st.total
            /\ handshakeLog' = st.log
            /\ previousConnectedIridiumSatIds' = st.connected
            /\ activeLinksLog' = Append(activeLinksLog, st.connected)
            /\ currentBlackout' = bo.cb
            /\ blackoutPeriods' = bo.periods
    /\ currentTime' = currentTime + timeStepMs
    /\ UNCHANGED <<call, beaconSatRec, iridiumTLEs, pc, config, startTime, iridiumSatRecs, results, thrown>>

\* lines 112, 259-286: the loop condition fails; close an open blackout, total up
Finalize ==
    /\ pc = "loop"
    /\ ~loopCondition
    /\ blackoutPeriods' = finalBlackoutPeriods
    /\ results' = Some(SimulationResults(finalBlackoutPeriods))
    /\ pc' = "done"
    /\ UNCHANGED <<call, beaconSatRec, iridiumTLEs, config, startTime, iridiumSatRecs, thrown, currentTime, simulationStepCounter,
                   totalHandshakes, handshakeLog, beaconTrack, iridiumTracks,
                   activeLinksLog, previousConnectedIridiumSatIds, currentBlackout,
                   propagationLog>>

Next ==
    \/ BeaconInitialized
    \/ BeaconInitFailed
    \/ FetchedNothing
    \/ NoSatRecInitialized
    \/ FetchedAndInitialized
    \/ StepBeaconFailed
    \/ StepProcessed
    \/ Finalize

Spec == Init /\ [][Next]_vars

\* the step loop is synchronous code: once entered, it runs to its end
LoopSpec == Spec /\ WF_vars(StepBeaconFailed \/ StepProcessed) /\ WF_vars(Finalize)

\* ------------------------------------------------- vocabulary of the claims
\* the ids whose link the step recorded in entry e evaluated as active
linkActive(e) ==
    IF e.beacon
    THEN {iridiumSatRecs[i] : i \in {j \in 1..Len(iridiumSatRecs) : canCommunicate(e.iridium[j])}}
    ELSE {}

\* the iterated steps at which Beacon propagation succeeded, in order
processedSteps(log) == SelectSeq(log, LAMBDA e : e.beacon)

\* the link set of the last processed step of log (empty before the first one)
previousActive(log) ==
    LET p == processedSteps(log)
    IN IF p = <<>> THEN {} ELSE linkActive(p[Len(p)])

\* this transition is one loop iteration; stepTaken' is the record of its answers
iterationTaken == Len(propagationLog') = Len(propagationLog) + 1
iterationEntry == propagationLog[Len(propagationLog)]

noLinkAtAnyStep == \A k \in 1..Len(propagationLog) : linkActive(propagationLog[k]) = {}

strictlyIncreasing(track) ==
    \A i \in 1..Len(track) - 1 : track[i].timestamp < track[i + 1].timestamp

handshakesOf(log, id, t) == {k \in 1..Len(log) : log[k] = Handshake(t, id)}

\* --------------------------------------------------------------- claims
\* C1: at every processed step and for every Iridium id, a Handshake with that
\* id and the step's timestamp is appended iff the link to id is active at the
\* step and was not active at the previous processed step (inactive before the
\* first one); a link that merely stays active adds no handshake.
C1_HandshakeOnlyOnActivationEdge ==
    [][ (iterationTaken /\ iterationEntry'.beacon) =>
          LET n     == Len(handshakeLog)
              added == SubSeq(handshakeLog', n + 1, Len(handshakeLog'))
          IN /\ Len(handshakeLog') >= n
             /\ SubSeq(handshakeLog', 1, n) = handshakeLog
             /\ \A k \in 1..Len(added) : added[k].timestamp = currentTime
             /\ \A id \in DOMAIN iridiumTracks :
                  (handshakesOf(added, id, currentTime) # {})
                    <=> (id \in linkActive(iterationEntry')
                         /\ id \notin previousActive(propagationLog))
    ]_vars

\* one link is lost and regained (two handshakes), another one stays active
C1_Witness ==
    /\ Len(activeLinksLog) = 3
    /\ \E a, b \in DOMAIN iridiumTracks :
         /\ a # b
         /\ a \in activeLinksLog[1] /\ a \notin activeLinksLog[2] /\ a \in activeLinksLog[3]
         /\ b \in activeLinksLog[2] /\ b \in activeLinksLog[3]
         /\ Cardinality({k \in 1..Len(handshakeLog) : handshakeLog[k].iridiumSatelliteId = a}) = 2
         /\ Cardinality({k \in 1..Len(handshakeLog) : handshakeLog[k].iridiumSatelliteId = b}) = 1

\* C2: one global blackout state: it opens at the first processed step with no
\* active link (startTime = that instant), stays the same blackout while no link
\* is active, and is closed, by appending a BlackoutPeriod ending at that
\* instant, at the next processed step with an active link.
C2_SingleGlobalBlackout ==
    [][ (iterationTaken /\ iterationEntry'.beacon) =>
          LET active == linkActive(iterationEntry')
          IN /\ (active = {} /\ currentBlackout = null) =>
                  /\ currentBlackout' = Some([startTime |-> currentTime])
                  /\ blackoutPeriods' = blackoutPeriods
             /\ (active = {} /\ currentBlackout # null) =>
                  UNCHANGED <<currentBlackout, blackoutPeriods>>
             /\ (active # {} /\ currentBlackout # null) =>
                  /\ currentBlackout' = null
                  /\ blackoutPeriods' =
                       Append(blackoutPeriods,
                              [startTime |-> valueOf(currentBlackout).startTime,
                               endTime   |-> currentTime,
                               duration  |-> (currentTime - valueOf(currentBlackout).startTime) \div 1000])
             /\ (active # {} /\ currentBlackout = null) =>
                  UNCHANGED <<currentBlackout, blackoutPeriods>>
    ]_vars

\* a blackout that lasted two processed steps has been closed inside the loop
C2_Witness ==
    /\ pc = "loop"
    /\ currentBlackout = null
    /\ Len(blackoutPeriods) = 1
    /\ blackoutPeriods[1].endTime - blackoutPeriods[1].startTime = 2 * timeStepMs
    /\ blackoutPeriods[1].endTime = beaconTrack[Len(beaconTrack)].timestamp

\* C3: a blackout still open when the loop ends is closed by exactly one
\* BlackoutPeriod whose endTime is the last iterated instant plus one timestep,
\* the first grid instant beyond start + duration, with duration in seconds.
C3_OpenBlackoutClosedAfterLoop ==
    [][ (pc = "loop" /\ pc' = "done" /\ currentBlackout # null) =>
          LET e == iterationEntry.time + timeStepMs
              s == valueOf(currentBlackout).startTime
          IN /\ blackoutPeriods' =
                  Append(blackoutPeriods,
                         [startTime |-> s, endTime |-> e, duration |-> (e - s) \div 1000])
             /\ valueOf(results').blackoutPeriods = blackoutPeriods'
             /\ e > endTime
             /\ e - timeStepMs <= endTime
             /\ (e - startTime) % timeStepMs = 0
    ]_vars

\* the run ended inside a blackout that had opened after an earlier one closed
C3_Witness ==
    /\ pc = "done"
    /\ currentBlackout # null
    /\ Len(blackoutPeriods) = 2
    /\ blackoutPeriods[2].startTime = valueOf(currentBlackout).startTime
    /\ blackoutPeriods[2].endTime > endTime

\* C4: in a run in which no link is active at any step, the reported
\* totalBlackoutDuration equals simulationDurationHours*3600 seconds.
C4_TotalBlackoutIsRunDuration ==
    (pc = "done" /\ noLinkAtAnyStep) =>
        valueOf(results).totalBlackoutDuration
          = (config.simulationDurationHours * 3600) \div HourDenominator

C6_ActiveLinksAlignedWithBeaconTrack ==
    LET aligned(links, track) ==
          /\ Len(links) = Len(track)
          /\ \A i \in 1..Len(track) :
               \E k \in 1..Len(propagationLog) :
                  /\ propagationLog[k].time = track[i].timestamp
                  /\ propagationLog[k].beacon
                  /\ links[i] = linkActive(propagationLog[k])
    IN /\ aligned(activeLinksLog, beaconTrack)
       /\ pc = "done" =>
            aligned(valueOf(results).activeLinksLog, valueOf(results).beaconTrack)

\* a finished run with a skipped step before a processed step that has a link
C6_Witness ==
    /\ pc = "done"
    /\ Len(propagationLog) = 3
    /\ ~propagationLog[1].beacon
    /\ Len(beaconTrack) = 2
    /\ activeLinksLog[1] = {}
    /\ activeLinksLog[2] # {}

\* C7: in every track the timestamps are strictly increasing and every entry
\* belongs to a processed step, one entry per satellite and step.
C7_TracksStrictlyIncreasing ==
    /\ strictlyIncreasing(beaconTrack)
    /\ \A id \in DOMAIN iridiumTracks :
         /\ strictlyIncreasing(iridiumTracks[id])
         /\ \A i \in 1..Len(iridiumTracks[id]) :
              \E j \in 1..Len(beaconTrack) :
                 beaconTrack[j].timestamp = iridiumTracks[id][i].timestamp

\* the grid of instants start + k*timestep, k = 0..floor(duration/timestep)
stepGrid ==
    [k \in 1..(simulationDurationMs \div timeStepMs) + 1 |-> startTime + (k - 1) * timeStepMs]

iteratedInstants == [k \in 1..Len(propagationLog) |-> propagationLog[k].time]

C9_BeaconFailureSkipsWholeStep ==
    [][ (iterationTaken /\ ~iterationEntry'.beacon) =>
          /\ UNCHANGED <<beaconTrack, iridiumTracks, activeLinksLog, handshakeLog,
                         totalHandshakes, blackoutPeriods,
                         previousConnectedIridiumSatIds, currentBlackout>>
          /\ currentTime' = currentTime + timeStepMs
          /\ pc' = "loop"
          /\ thrown' = null /\ results' = null
    ]_vars

\* a step was skipped while a link was active, and the next step was processed
C9_Witness ==
    /\ Len(propagationLog) = 3
    /\ propagationLog[1].beacon /\ linkActive(propagationLog[1]) # {}
    /\ ~propagationLog[2].beacon
    /\ propagationLog[3].beacon
    /\ Len(beaconTrack) = 2
    /\ beaconTrack[2].timestamp = beaconTrack[1].timestamp + 2 * timeStepMs

\* C10: at a processed step every Iridium satellite whose propagation succeeds
\* gets its track entry and its link evaluation, and a satellite whose
\* propagation fails gets neither, wherever it stands in the list.
C10_IridiumFailureSkipsOnlyThatSatellite ==
    [][ (iterationTaken /\ iterationEntry'.beacon) =>
          LET e == iterationEntry'
              propagated(id) == {i \in 1..Len(iridiumSatRecs) :
                                   iridiumSatRecs[i] = id /\ propagationOk(e.iridium[i])}
          IN /\ \A id \in DOMAIN iridiumTracks :
                  iridiumTracks'[id] =
                     iridiumTracks[id] \o
                        [k \in 1..Cardinality(propagated(id)) |-> SatellitePosition(currentTime)]
             /\ activeLinksLog'[Len(activeLinksLog')] =
                  {iridiumSatRecs[i] : i \in {j \in 1..Len(iridiumSatRecs) :
                                                 e.iridium[j] = "link"}}
    ]_vars

\* the first satellite of the list failed and the second one was linked
C10_Witness ==
    /\ Len(iridiumSatRecs) = 2
    /\ iridiumSatRecs[1] # iridiumSatRecs[2]
    /\ Len(propagationLog) >= 1
    /\ iterationEntry.beacon
    /\ iterationEntry.iridium = <<"fail", "link">>
    /\ activeLinksLog[Len(activeLinksLog)] = {iridiumSatRecs[2]}
    /\ Len(iridiumTracks[iridiumSatRecs[1]]) < Len(iridiumTracks[iridiumSatRecs[2]])

\* C13: runSimulation aborts exactly when the Beacon record cannot be created
\* or no Iridium element set is usable (the fetched list is empty, or none of
\* its entries initialises).  A Beacon failure aborts before the fetch is
\* started, the step loop starts only once the fetch has completed, and no
\* propagation failure inside the loop aborts the run.
C13_AbortOnlyBeforeTheLoop ==
    /\ [] /\ pc = "aborted" <=> thrown # null
          /\ pc # "start" =>
                (pc = "aborted" <=>
                    \/ beaconSatRec = null
                    \/ /\ iridiumTLEs # null
                       /\ initializedSatRecs(valueOf(iridiumTLEs)) = <<>>)
          /\ beaconSatRec = null => iridiumTLEs = null
          /\ pc \in {"loop", "done"} => (beaconSatRec # null /\ iridiumTLEs # null)
    /\ [][ /\ (pc' = "aborted" /\ beaconSatRec' = null) => pc = "start"
           /\ (pc' = "loop" /\ pc # "loop") => (pc = "fetching" /\ iridiumTLEs' # null)
           /\ pc = "loop" => (pc' \in {"loop", "done"} /\ thrown' = null)
       ]_vars

\* a run aborted because none of the fetched element sets initialised
C13_Witness ==
    /\ pc = "aborted"
    /\ beaconSatRec # null
    /\ iridiumTLEs # null
    /\ Len(valueOf(iridiumTLEs)) = 2
    /\ thrown = Some("Failed to initialize any Iridium SatRecs")

\* =========================================================================
\* SatCore geometry (the second half of simulationEngine.ts, lines 288-571)
\* =========================================================================
\* Lengths are counted in Earth radii and positions lie on the integer grid.
\* A vector of reals is kept exactly: [x, y, z, d] stands for
\* (x, y, z) / sqrt(d) with d a positive integer, and a real scalar [n, d]
\* stands for n / sqrt(d).  Comparisons of such values are decided by
\* cross-multiplying, so the arithmetic is that of the reals and not of
\* IEEE doubles.

CoordMax == 2         \* largest coordinate of a point given to the line-of-sight test
LinkCoordMax == 1     \* largest coordinate of a satellite position in a link evaluation

RADIUS_EARTH_KM == 1

vec(x, y, z) == [x |-> x, y |-> y, z |-> z, d |-> 1]
real(n) == [n |-> n, d |-> 1]
Grid(c) == {vec(x, y, z) : x \in -c..c, y \in -c..c, z \in -c..c}

\* the root of a perfect square
ISqrt(n) == CHOOSE k \in 0..n : k * k = n

\* lines 295-297
dotProduct(v1, v2) == [n |-> v1.x * v2.x + v1.y * v2.y + v1.z * v2.z, d |-> v1.d * v2.d]

\* lines 300-302, squared: |v|^2 is magnitudeSq(v).n / magnitudeSq(v).d
magnitudeSq(v) == [n |-> v.x * v.x + v.y * v.y + v.z * v.z, d |-> v.d]

\* magnitude(v) < 1e-9: on the bounded grid the shortest non-zero vector is
\* far longer than the epsilon, so only the zero vector is below it
nearZero(v) == magnitudeSq(v).n = 0

\* lines 305-312
normalize(v) ==
    IF nearZero(v) THEN vec(0, 0, 0)
    ELSE [x |-> v.x, y |-> v.y, z |-> v.z, d |-> magnitudeSq(v).n]

\* lines 315-317; operands with different denominators are brought to a common one
subtract(v1, v2) ==
    IF v1.d = v2.d
    THEN [x |-> v1.x - v2.x, y |-> v1.y - v2.y, z |-> v1.z - v2.z, d |-> v1.d]
    ELSE LET q1 == ISqrt(v1.d)
             q2 == ISqrt(v2.d)
         IN  [x |-> v1.x * q2 - v2.x * q1,
              y |-> v1.y * q2 - v2.y * q1,
              z |-> v1.z * q2 - v2.z * q1,
              d |-> v1.d * v2.d]

\* lines 325-327
scale(v, scalar) ==
    [x |-> v.x * scalar.n, y |-> v.y * scalar.n, z |-> v.z * scalar.n, d |-> v.d * scalar.d]

\* lines 330-336
crossProduct(v1, v2) ==
    [x |-> v1.y * v2.z - v1.z * v2.y,
     y |-> v1.z * v2.x - v1.x * v2.z,
     z |-> v1.x * v2.y - v1.y * v2.x,
     d |-> v1.d * v2.d]

\* lines 80-88: fovDeg * (Math.PI / 180) / 2.  Angles are counted in degrees.
halfAngleOf(fovDeg) == fovDeg \div 2

\* cos^2 of the half-angles in use, as <<numerator, denominator>>
cosSquared(halfAngle) ==
    CASE halfAngle = 30 -> <<3, 4>>
      [] halfAngle = 45 -> <<1, 2>>
      [] halfAngle = 60 -> <<1, 4>>
      [] halfAngle = 90 -> <<0, 1>>

\* line 388: Math.max(-1, Math.min(1, cosAngle))
clamp(c) ==
    IF c.n * c.n > c.d THEN (IF c.n > 0 THEN real(1) ELSE real(-1)) ELSE c

\* lines 389, 399: Math.acos(c) <= halfAngle.  acos decreases on [-1, 1] and
\* the half-angles lie in (0, 90] degrees, so this is c >= cos(halfAngle) >= 0.
acosAtMost_exclusive(c, halfAngle) ==
    /\ c.n >= 0
    /\ c.n * c.n * cosSquared(halfAngle)[2] > cosSquared(halfAngle)[1] * c.d

acosAtMost(c, halfAngle) ==
    /\ c.n >= 0
    /\ c.n * c.n * cosSquared(halfAngle)[2] >= cosSquared(halfAngle)[1] * c.d

\* lines 367-370
getNadirVector(satelliteEciPos) == normalize(scale(satelliteEciPos, real(-1)))

\* lines 381-400
isPointInCone(targetPointEci, cone) ==
    LET vectorToTarget == subtract(targetPointEci, cone.tip)
        normalizedVectorToTarget == normalize(vectorToTarget)
        cosAngle == dotProduct(cone.axis, normalizedVectorToTarget)
        clampedCosAngle == clamp(cosAngle)
    IN  acosAtMost(clampedCosAngle, cone.halfAngle)

\* lines 411-422
createIridiumCone(iridiumEciPos, halfAngle) ==
    [tip |-> iridiumEciPos, axis |-> getNadirVector(iridiumEciPos), halfAngle |-> halfAngle]

\* lines 435-490
createHorizonAlignedAntennaCones_alongVelocity(satelliteEciPos, satelliteEciVelocity, halfAngle) ==
    LET antennaAxis1 == normalize(satelliteEciVelocity)
        antennaAxis2 == scale(antennaAxis1, real(-1))
    IN  IF nearZero(satelliteEciPos) THEN <<>>
        ELSE << [tip |-> satelliteEciPos, axis |-> antennaAxis1, halfAngle |-> halfAngle],
                [tip |-> satelliteEciPos, axis |-> antennaAxis2, halfAngle |-> halfAngle] >>

createHorizonAlignedAntennaCones(satelliteEciPos, satelliteEciVelocity, halfAngle) ==
    LET zenithVector == normalize(satelliteEciPos)
        velocityComponentParallelToZenith ==
            scale(zenithVector, dotProduct(satelliteEciVelocity, zenithVector))
        horizontal == subtract(satelliteEciVelocity, velocityComponentParallelToZenith)
        globalX == vec(1, 0, 0)
        globalY == vec(0, 1, 0)
        zx == dotProduct(zenithVector, globalX)
        arbitraryHorizontalDir ==
            IF zx.n * zx.n * 10000 < 9801 * zx.d      \* Math.abs(zx) < 0.99
            THEN normalize(crossProduct(zenithVector, globalX))
            ELSE normalize(crossProduct(zenithVector, globalY))
        horizontalVelocityComponent ==
            IF nearZero(horizontal) THEN arbitraryHorizontalDir ELSE horizontal
        antennaAxis1 == normalize(horizontalVelocityComponent)
        antennaAxis2 == scale(antennaAxis1, real(-1))
    IN  IF nearZero(zenithVector) THEN <<>>
        ELSE IF nearZero(horizontal) /\ nearZero(arbitraryHorizontalDir) THEN <<>>
        ELSE << [tip |-> satelliteEciPos, axis |-> antennaAxis1, halfAngle |-> halfAngle],
                [tip |-> satelliteEciPos, axis |-> antennaAxis2, halfAngle |-> halfAngle] >>

\* lines 506-571.  The intersection parameters are
\*   t1 = (-b - sqrt(disc)) / (2a)  and  t2 = (-b + sqrt(disc)) / (2a);
\* for point1 = point2 both are 0/0 = NaN, which compares false with anything.
isLineOfSightClear_point1Decides(point1, point2, earthCenter, earthRadius) ==
    LET fx == point1.x - earthCenter.x
        fy == point1.y - earthCenter.y
        fz == point1.z - earthCenter.z
    IN  fx * fx + fy * fy + fz * fz <= earthRadius * earthRadius

isLineOfSightClear_surfaceGrazeClear(point1, point2, earthCenter, earthRadius) ==
    LET dx == point2.x - point1.x
        dy == point2.y - point1.y
        dz == point2.z - point1.z
        fx == point1.x - earthCenter.x
        fy == point1.y - earthCenter.y
        fz == point1.z - earthCenter.z
        a == dx * dx + dy * dy + dz * dz
        b == 2 * (fx * dx + fy * dy + fz * dz)
        c == fx * fx + fy * fy + fz * fz - earthRadius * earthRadius
        discriminant == b * b - 4 * a * c
        t1InRange == a > 0 /\ b <= 0 /\ b * b >= discriminant
                           /\ (b + 2 * a >= 0 \/ (b + 2 * a) * (b + 2 * a) <= discriminant)
        t2InRange == a > 0 /\ (b <= 0 \/ discriminant >= b * b)
                           /\ b + 2 * a >= 0 /\ discriminant <= (b + 2 * a) * (b + 2 * a)
        p1DistSq == fx * fx + fy * fy + fz * fz
        p2DistSq == (point2.x - earthCenter.x) * (point2.x - earthCenter.x)
                  + (point2.y - earthCenter.y) * (point2.y - earthCenter.y)
                  + (point2.z - earthCenter.z) * (point2.z - earthCenter.z)
        rSq == earthRadius * earthRadius
    IN  IF discriminant < 0 THEN TRUE
        ELSE IF t1InRange \/ t2InRange
        THEN ~ (p1DistSq > rSq /\ p2DistSq > rSq)
             /\ ~ ((p1DistSq < rSq /\ p2DistSq > rSq) \/ (p1DistSq > rSq /\ p2DistSq < rSq))
        ELSE TRUE

isLineOfSightClear(point1, point2, earthCenter, earthRadius) ==
    LET dx == point2.x - point1.x
        dy == point2.y - point1.y
        dz == point2.z - point1.z
        fx == point1.x - earthCenter.x
        fy == point1.y - earthCenter.y
        fz == point1.z - earthCenter.z
        a == dx * dx + dy * dy + dz * dz
        b == 2 * (fx * dx + fy * dy + fz * dz)
        c == fx * fx + fy * fy + fz * fz - earthRadius * earthRadius
        discriminant == b * b - 4 * a * c
        \* 0 <= t1 <= 1
        t1InRange == a > 0 /\ b <= 0 /\ b * b >= discriminant
                           /\ (b + 2 * a >= 0 \/ (b + 2 * a) * (b + 2 * a) <= discriminant)
        \* 0 <= t2 <= 1
        t2InRange == a > 0 /\ (b <= 0 \/ discriminant >= b * b)
                           /\ b + 2 * a >= 0 /\ discriminant <= (b + 2 * a) * (b + 2 * a)
        p1DistSq == fx * fx + fy * fy + fz * fz
        p2DistSq == (point2.x - earthCenter.x) * (point2.x - earthCenter.x)
                  + (point2.y - earthCenter.y) * (point2.y - earthCenter.y)
                  + (point2.z - earthCenter.z) * (point2.z - earthCenter.z)
        rSq == earthRadius * earthRadius
    IN  IF discriminant < 0 THEN TRUE
        ELSE IF t1InRange \/ t2InRange
        THEN IF (p1DistSq < rSq /\ p2DistSq > rSq) \/ (p1DistSq > rSq /\ p2DistSq < rSq)
             THEN FALSE
             ELSE IF p1DistSq > rSq /\ p2DistSq > rSq THEN FALSE
             ELSE IF p1DistSq <= rSq /\ p2DistSq <= rSq THEN TRUE
             ELSE FALSE
        ELSE TRUE

\* ------------------------------------------------------------------------
\* A library function examined on its own: runSimulation is not running, and
\* call holds the arguments and, once the function has returned, its result.
engineIdle ==
    /\ pc = "idle"
    /\ config = null
    /\ startTime = 0
    /\ iridiumSatRecs = <<>>
    /\ currentTime = 0
    /\ simulationStepCounter = 0
    /\ totalHandshakes = 0
    /\ handshakeLog = <<>>
    /\ blackoutPeriods = <<>>
    /\ beaconTrack = <<>>
    /\ iridiumTracks = <<>>
    /\ activeLinksLog = <<>>
    /\ previousConnectedIridiumSatIds = {}
    /\ currentBlackout = null
    /\ results = null
    /\ thrown = null
    /\ propagationLog = <<>>
    /\ iridiumTLEs = null
    /\ beaconSatRec = null

engineVars == <<pc, config, startTime, iridiumSatRecs, currentTime,
                simulationStepCounter, totalHandshakes, handshakeLog,
                blackoutPeriods, beaconTrack, iridiumTracks, activeLinksLog,
                previousConnectedIridiumSatIds, currentBlackout, results,
                thrown, propagationLog, iridiumTLEs, beaconSatRec>>

\* ------------------------------------------- isLineOfSightClear on its own
EarthRadii == {RADIUS_EARTH_KM, 2 * RADIUS_EARTH_KM}
earthCenterDefault == vec(0, 0, 0)

LosInit ==
    /\ engineIdle
    /\ call \in [fn : {"isLineOfSightClear"},
                 point1 : Grid(CoordMax), point2 : Grid(CoordMax),
                 earthRadius : EarthRadii, returned : {null}]

CallIsLineOfSightClear ==
    /\ call.fn = "isLineOfSightClear"
    /\ call.returned = null
    /\ call' = [call EXCEPT !.returned =
                   Some(isLineOfSightClear(call.point1, call.point2,
                                           earthCenterDefault, call.earthRadius))]
    /\ UNCHANGED engineVars

LosNext == CallIsLineOfSightClear

LosSpec == LosInit /\ [][LosNext]_vars

\* squared distance of a point from the Earth's centre, and the squared radius
distSq(p) == (p.x - earthCenterDefault.x) * (p.x - earthCenterDefault.x)
           + (p.y - earthCenterDefault.y) * (p.y - earthCenterDefault.y)
           + (p.z - earthCenterDefault.z) * (p.z - earthCenterDefault.z)
rSqOf(cl) == cl.earthRadius * cl.earthRadius
strictlyInside(p, cl) == distSq(p) < rSqOf(cl)
strictlyOutside(p, cl) == distSq(p) > rSqOf(cl)
onSurface(p, cl) == distSq(p) = rSqOf(cl)

\* the coefficients of |point1 + t (point2 - point1) - centre|^2 - R^2 =
\* a t^2 + b t + c, and the discriminant
quadratic(cl) ==
    LET a == distSq(subtract(cl.point2, cl.point1))
        b == 2 * dotProduct(subtract(cl.point1, earthCenterDefault),
                            subtract(cl.point2, cl.point1)).n
        c == distSq(cl.point1) - rSqOf(cl)
    IN  [a |-> a, b |-> b, c |-> c, discriminant |-> b * b - 4 * a * c]

\* The quadratic has a root in [0, 1]: on [0, 1] its largest value, taken at
\* an endpoint, is >= 0 and its smallest value, taken at the vertex when the
\* vertex lies in [0, 1] and at an endpoint otherwise, is <= 0.
parameterInUnitInterval(cl) ==
    LET q == quadratic(cl)
        g0 == distSq(cl.point1) - rSqOf(cl)
        g1 == distSq(cl.point2) - rSqOf(cl)
    IN  /\ q.a > 0
        /\ (g0 >= 0 \/ g1 >= 0)
        /\ IF 0 <= -q.b /\ -q.b <= 2 * q.a THEN q.discriminant >= 0
           ELSE (g0 <= 0 \/ g1 <= 0)

\* C15: isLineOfSightClear is symmetric in its two points: exchanging point1
\* and point2 never changes the answer, also when the points coincide and
\* when endpoints lie on or inside the sphere.
C15_LineOfSightSymmetric ==
    (call.fn = "isLineOfSightClear" /\ call.returned # null) =>
        valueOf(call.returned) =
            isLineOfSightClear(call.point2, call.point1, earthCenterDefault, call.earthRadius)

\* point1 on the surface, point2 strictly outside, and the answer is "blocked"
C15_Witness ==
    /\ call.fn = "isLineOfSightClear"
    /\ call.returned = Some(FALSE)
    /\ onSurface(call.point1, call)
    /\ strictlyOutside(call.point2, call)

HalfAngles == {30, 45, 60, 90}
Tips == {vec(0, 0, 0), vec(1, 0, -1)}
\* unit axes as the cone constructors make them, the zero axis that
\* normalize returns for a zero vector, and axes that were never normalised
Axes == {normalize(v) : v \in Grid(LinkCoordMax)} \cup Grid(LinkCoordMax)

ConeInit ==
    /\ engineIdle
    /\ call \in [fn : {"isPointInCone"},
                 targetPointEci : Grid(CoordMax),
                 cone : [tip : Tips, axis : Axes, halfAngle : HalfAngles],
                 returned : {null}]

CallIsPointInCone ==
    /\ call.fn = "isPointInCone"
    /\ call.returned = null
    /\ call' = [call EXCEPT !.returned = Some(isPointInCone(call.targetPointEci, call.cone))]
    /\ UNCHANGED engineVars

ConeNext == CallIsPointInCone

ConeSpec == ConeInit /\ [][ConeNext]_vars

\* tan^2 of the half-angles below 90 degrees, as <<numerator, denominator>>
tanSquared(halfAngle) ==
    CASE halfAngle = 30 -> <<1, 3>>
      [] halfAngle = 45 -> <<1, 1>>
      [] halfAngle = 60 -> <<3, 1>>

\* The angle between the directions u and w is at most halfAngle, decided
\* from its tangent |u x w| / (u . w); the lengths of u and w do not matter.
angleAtMost(u, w, halfAngle) ==
    LET dot == u.x * w.x + u.y * w.y + u.z * w.z
        crossSq == magnitudeSq(crossProduct(u, w)).n
    IN  IF halfAngle = 90 THEN dot >= 0
        ELSE /\ dot > 0
             /\ crossSq * tanSquared(halfAngle)[2] <= tanSquared(halfAngle)[1] * dot * dot

isUnit(v) == magnitudeSq(v).n = magnitudeSq(v).d

\* C17: for a cone with a unit axis and a target that is not the tip,
\* isPointInCone answers true exactly when the angle between the axis and the
\* vector from the tip to the target is at most the half-angle; a target at
\* exactly the half-angle is in the cone.
C17_PointInConeIffAngleAtMostHalfAngle ==
    (/\ call.fn = "isPointInCone"
     /\ call.returned # null
     /\ isUnit(call.cone.axis)
     /\ call.targetPointEci # call.cone.tip) =>
        (valueOf(call.returned) <=>
            angleAtMost(call.cone.axis, subtract(call.targetPointEci, call.cone.tip),
                        call.cone.halfAngle))

\* a target at exactly 45 degrees off the axis of a 45-degree cone is inside
C17_Witness ==
    /\ call.fn = "isPointInCone"
    /\ call.returned = Some(TRUE)
    /\ call.cone.halfAngle = 45
    /\ call.cone.axis = vec(1, 0, 0)
    /\ subtract(call.targetPointEci, call.cone.tip) = vec(1, 1, 0)

\* --------------------------- the link decision of one step for one satellite
\* runSimulation lines 146-224: what canCommunicate(outcome) of the step loop
\* abstracts.  The Beacon has propagated; the Iridium satellite may have not.
HandshakeModes == {"one-way", "bi-directional"}
FovsDeg == {90, 120, 180}
Velocities == {vec(1, 0, 0), vec(0, 0, 1)}

\* the positions propagateSatellite may hand back: it refuses NaN only, so
\* the zero vector, against which the cone constructors guard, is among them
OrbitPositions == Grid(LinkCoordMax)
Propagations == [positionEci : OrbitPositions, velocityEci : Velocities]

\* lines 183-188 and 191-198: a loop over the cones that stops at the first hit
RECURSIVE anyConeContains(_, _)
anyConeContains(cones, point) ==
    IF cones = <<>> THEN FALSE
    ELSE IF isPointInCone(point, Head(cones)) THEN TRUE
    ELSE anyConeContains(Tail(cones), point)

\* lines 171-173
oneWayCanCommunicate_usesBeaconFov(cfg, beacon, iridium) ==
    isPointInCone(beacon.positionEci,
                  createIridiumCone(iridium.positionEci, halfAngleOf(cfg.beaconFovDeg)))

oneWayCanCommunicate(cfg, beacon, iridium) ==
    LET iridiumNadirCone ==
            createIridiumCone(iridium.positionEci, halfAngleOf(cfg.iridiumFovDeg))
    IN  isPointInCone(beacon.positionEci, iridiumNadirCone)

\* lines 181-202
biDirectionalCanCommunicate_eitherCone(cfg, beacon, iridium) ==
    \/ anyConeContains(createHorizonAlignedAntennaCones(iridium.positionEci,
           iridium.velocityEci, halfAngleOf(cfg.iridiumFovDeg)), beacon.positionEci)
    \/ anyConeContains(createHorizonAlignedAntennaCones(beacon.positionEci,
           beacon.velocityEci, halfAngleOf(cfg.beaconFovDeg)), iridium.positionEci)

biDirectionalCanCommunicate_emptyConesContain(cfg, beacon, iridium) ==
    LET iridiumHorizonCones ==
            createHorizonAlignedAntennaCones(iridium.positionEci, iridium.velocityEci,
                                             halfAngleOf(cfg.iridiumFovDeg))
        beaconHorizonCones ==
            createHorizonAlignedAntennaCones(beacon.positionEci, beacon.velocityEci,
                                             halfAngleOf(cfg.beaconFovDeg))
    IN  /\ iridiumHorizonCones = <<>>
              \/ anyConeContains(iridiumHorizonCones, beacon.positionEci)
        /\ beaconHorizonCones = <<>>
              \/ anyConeContains(beaconHorizonCones, iridium.positionEci)

biDirectionalCanCommunicate_skippedCheckPasses(cfg, beacon, iridium) ==
    LET beaconInIridiumHorizonCone ==
            anyConeContains(createHorizonAlignedAntennaCones(iridium.positionEci,
                iridium.velocityEci, halfAngleOf(cfg.iridiumFovDeg)), beacon.positionEci)
    IN  IF beaconInIridiumHorizonCone
        THEN anyConeContains(createHorizonAlignedAntennaCones(beacon.positionEci,
                 beacon.velocityEci, halfAngleOf(cfg.beaconFovDeg)), iridium.positionEci)
        ELSE TRUE

biDirectionalCanCommunicate(cfg, beacon, iridium) ==
    LET iridiumHorizonCones ==
            createHorizonAlignedAntennaCones(iridium.positionEci, iridium.velocityEci,
                                             halfAngleOf(cfg.iridiumFovDeg))
        beaconHorizonCones ==
            createHorizonAlignedAntennaCones(beacon.positionEci, beacon.velocityEci,
                                             halfAngleOf(cfg.beaconFovDeg))
        beaconInIridiumHorizonCone == anyConeContains(iridiumHorizonCones, beacon.positionEci)
        iridiumInBeaconHorizonCone ==
            IF beaconInIridiumHorizonCone
            THEN anyConeContains(beaconHorizonCones, iridium.positionEci)
            ELSE FALSE
    IN  beaconInIridiumHorizonCone /\ iridiumInBeaconHorizonCone

\* lines 213-219
lineOfSightCheck(conesAgree, beacon, iridium) ==
    IF conesAgree
    THEN isLineOfSightClear(beacon.positionEci, iridium.positionEci,
                            earthCenterDefault, RADIUS_EARTH_KM)
    ELSE conesAgree

LinkInit ==
    /\ engineIdle
    /\ call \in [fn : {"linkDecision"},
                 config : [handshakeMode : HandshakeModes,
                           iridiumFovDeg : FovsDeg, beaconFovDeg : FovsDeg],
                 id : {"IRIDIUM 7"},
                 beaconPropagation : Propagations,
                 iridiumPropagation : {null} \cup {Some(p) : p \in Propagations},
                 iridiumHorizonCones : {null}, beaconHorizonCones : {null},
                 conesAgree : {null},
                 canCommunicate : {null},
                 currentConnectedIridiumSatIdsThisStep : {{}},
                 previousConnectedIridiumSatIds : {{}},
                 handshakeLog : {<<>>},
                 returned : {FALSE}]

\* lines 149-153: the satellite is skipped
IridiumSkipped ==
    /\ call.fn = "linkDecision"
    /\ ~call.returned
    /\ call.iridiumPropagation = null
    /\ call' = [call EXCEPT !.returned = TRUE]
    /\ UNCHANGED engineVars

\* lines 171-179, 213-233; the satellite was not connected at the step before,
\* so a link made is a handshake
OneWayEvaluated ==
    /\ call.fn = "linkDecision"
    /\ ~call.returned
    /\ call.iridiumPropagation # null
    /\ call.config.handshakeMode = "one-way"
    /\ LET inCone == oneWayCanCommunicate(call.config, call.beaconPropagation,
                                          valueOf(call.iridiumPropagation))
           can == lineOfSightCheck(inCone, call.beaconPropagation,
                                   valueOf(call.iridiumPropagation))
       IN  call' = [call EXCEPT !.returned = TRUE,
                                !.conesAgree = Some(inCone),
                                !.canCommunicate = Some(can),
                                !.currentConnectedIridiumSatIdsThisStep =
                                    IF can THEN {call.id} ELSE {},
                                !.handshakeLog =
                                    IF can /\ call.id \notin call.previousConnectedIridiumSatIds
                                    THEN Append(call.handshakeLog, call.id)
                                    ELSE call.handshakeLog]
    /\ UNCHANGED engineVars

\* lines 181-233
BiDirectionalEvaluated ==
    /\ call.fn = "linkDecision"
    /\ ~call.returned
    /\ call.iridiumPropagation # null
    /\ call.config.handshakeMode # "one-way"
    /\ LET iridiumPropagation == valueOf(call.iridiumPropagation)
           inCones == biDirectionalCanCommunicate(call.config, call.beaconPropagation,
                                                  iridiumPropagation)
           can == lineOfSightCheck(inCones, call.beaconPropagation, iridiumPropagation)
       IN  call' = [call EXCEPT !.returned = TRUE,
                                !.iridiumHorizonCones =
                                    Some(createHorizonAlignedAntennaCones(
                                        iridiumPropagation.positionEci,
                                        iridiumPropagation.velocityEci,
                                        halfAngleOf(call.config.iridiumFovDeg))),
                                !.beaconHorizonCones =
                                    Some(createHorizonAlignedAntennaCones(
                                        call.beaconPropagation.positionEci,
                                        call.beaconPropagation.velocityEci,
                                        halfAngleOf(call.config.beaconFovDeg))),
                                !.conesAgree = Some(inCones),
                                !.canCommunicate = Some(can),
                                !.currentConnectedIridiumSatIdsThisStep =
                                    IF can THEN {call.id} ELSE {},
                                !.handshakeLog =
                                    IF can /\ call.id \notin call.previousConnectedIridiumSatIds
                                    THEN Append(call.handshakeLog, call.id)
                                    ELSE call.handshakeLog]
    /\ UNCHANGED engineVars

LinkNext ==
    \/ IridiumSkipped
    \/ OneWayEvaluated
    \/ BiDirectionalEvaluated

LinkSpec == LinkInit /\ [][LinkNext]_vars

\* vocabulary of the link claims
linkDecided == call.fn = "linkDecision" /\ call.returned
linkMade == call.id \in call.currentConnectedIridiumSatIdsThisStep
beacon == call.beaconPropagation
iridium == valueOf(call.iridiumPropagation)
losClear == isLineOfSightClear(beacon.positionEci, iridium.positionEci,
                               earthCenterDefault, RADIUS_EARTH_KM)

\* the Beacon is within halfAngle of the direction from the satellite to the
\* Earth's centre
beaconInNadirCone(halfAngle) ==
    angleAtMost(scale(iridium.positionEci, real(-1)),
                subtract(beacon.positionEci, iridium.positionEci), halfAngle)

\* the point is within the cone's half-angle of the axis of one of the cones
inSomeCone(cones, point) ==
    \E i \in 1..Len(cones) :
        angleAtMost(cones[i].axis, subtract(point, cones[i].tip), cones[i].halfAngle)

beaconSeenByIridium ==
    inSomeCone(createHorizonAlignedAntennaCones(iridium.positionEci, iridium.velocityEci,
                   halfAngleOf(call.config.iridiumFovDeg)), beacon.positionEci)
iridiumSeenByBeacon ==
    inSomeCone(createHorizonAlignedAntennaCones(beacon.positionEci, beacon.velocityEci,
                   halfAngleOf(call.config.beaconFovDeg)), iridium.positionEci)

\* C11: in one-way mode the satellite's id is in the step's set of active
\* links exactly when the satellite propagated, the Beacon lies inside its
\* nadir cone of half-angle iridiumFovDeg / 2, and the line of sight is
\* clear; neither the Beacon FOV nor any velocity enters the decision.
C11_OneWayLinkIffNadirConeAndLineOfSight ==
    (linkDecided /\ call.config.handshakeMode = "one-way") =>
        (linkMade <=>
            /\ call.iridiumPropagation # null
            /\ beaconInNadirCone(halfAngleOf(call.config.iridiumFovDeg))
            /\ losClear)

\* a one-way link whose Beacon would fall outside a cone of the Beacon's FOV
C11_Witness ==
    /\ linkDecided
    /\ call.config.handshakeMode = "one-way"
    /\ linkMade
    /\ call.iridiumPropagation # null
    /\ ~beaconInNadirCone(halfAngleOf(call.config.beaconFovDeg))

\* C12: in bi-directional mode the link is active exactly when the Beacon is
\* inside one of the satellite's horizon cones (half-angle iridiumFovDeg / 2),
\* the satellite is inside one of the Beacon's horizon cones (half-angle
\* beaconFovDeg / 2), and the line of sight is clear; one cone condition
\* alone leaves canCommunicate false.
C12_BiDirectionalLinkIffBothConesAndLineOfSight ==
    (linkDecided /\ call.config.handshakeMode = "bi-directional") =>
        /\ linkMade <=>
              /\ call.iridiumPropagation # null
              /\ beaconSeenByIridium
              /\ iridiumSeenByBeacon
              /\ losClear
        /\ (/\ call.iridiumPropagation # null
            /\ ~(beaconSeenByIridium /\ iridiumSeenByBeacon))
              => call.canCommunicate = Some(FALSE)

\* the Beacon sits in a horizon cone of the satellite, the line of sight is
\* clear, but the satellite is in no cone of the Beacon: no link
C12_Witness ==
    /\ linkDecided
    /\ call.config.handshakeMode = "bi-directional"
    /\ call.iridiumPropagation # null
    /\ beaconSeenByIridium
    /\ ~iridiumSeenByBeacon
    /\ losClear
    /\ call.canCommunicate = Some(FALSE)
    /\ ~linkMade

\* =========================================================================
\* Beacon synthesis: runSimulation lines 46-58 with orbitCalculation.ts
\* (createSatrecForNonPolarBeacon, createSatrecForSunSynchronousBeacon,
\* createTLEStringsFromBeaconParams).  BeaconInitialized and BeaconInitFailed
\* of the step-loop model are its two outcomes.
\* =========================================================================
\* Altitudes are whole kilometres, local solar times whole hours, and angles
\* are counted in tenths of a degree.
DegDenominator == 10
TLE_LINE_LENGTH == 69

Altitudes == {-1, 0, 1, 499, 500, 501, 1000, 1001}
Inclinations == {-1, 0, 900, 1800, 1801}
Raans == {null} \cup {Some(r) : r \in {-1, 0, 3599, 3600}}     \* raan?: number
LocalSolarTimes == {-1, 0, 23, 24}
SunRightAscensions == {-900, 0, 2750}                        \* sunRaEpochDeg

BeaconParams ==
    [type : {"NonPolar"}, altitude : Altitudes, inclination : Inclinations, raan : Raans]
    \cup [type : {"SunSynchronous"}, altitude : Altitudes,
          localSolarTimeAtDescendingNode : LocalSolarTimes]

\* the % operator of JavaScript: the result takes the sign of the dividend
jsRemainder(a, n) == IF a >= 0 THEN a % n ELSE -((-a) % n)

\* orbitCalculation.ts lines 206-213
nonPolarInputRejected(params) ==
    \/ params.altitude <= 0 \/ params.inclination < 0
    \/ params.inclination > 180 * DegDenominator
    \/ (params.raan # null /\ (valueOf(params.raan) < 0
                               \/ valueOf(params.raan) >= 360 * DegDenominator))

\* orbitCalculation.ts lines 256-259
sunSynchronousInputRejected(params) ==
    \/ params.altitude <= 0
    \/ params.localSolarTimeAtDescendingNode < 0
    \/ params.localSolarTimeAtDescendingNode >= 24

\* orbitCalculation.ts lines 486-488
ssoInclinationDeg_inclusiveBands(altitude) ==
    IF altitude <= 500 THEN 974
    ELSE IF altitude >= 1000 THEN 995
    ELSE 986

ssoInclinationDeg(altitude) ==
    IF altitude < 500 THEN 974
    ELSE IF altitude > 1000 THEN 995
    ELSE 986

\* orbitCalculation.ts lines 482-484
ssoRaanDeg(lstDN, sunRaEpochDeg) ==
    LET lstANHours == jsRemainder(lstDN + 12, 24)
        raanDeg == jsRemainder(lstANHours * 15 * DegDenominator + sunRaEpochDeg,
                               360 * DegDenominator)
    IN  IF raanDeg < 0 THEN raanDeg + 360 * DegDenominator ELSE raanDeg

\* orbitCalculation.ts lines 508-533 and 540-557: every field is padded or
\* cut to its column width, so the lengths are sums of the widths
line1Length == 2 + 5 + 1 + 1 + 2 + 3 + 3 + 1 + 2 + 12 + 1 + 10 + 1 + 8 + 1 + 8 + 1 + 1 + 1 + 4 + 1
line2Length == 2 + 5 + 1 + 8 + 1 + 8 + 1 + 7 + 1 + 8 + 1 + 8 + 1 + 11 + 5 + 1

\* orbitCalculation.ts lines 447-591: null, or the elements written to the lines
createTLEStringsFromBeaconParams(params, sunRaEpochDeg) ==
    IF params.altitude <= 0 THEN null
    ELSE IF params.type = "SunSynchronous"
    THEN IF \/ params.localSolarTimeAtDescendingNode < 0
            \/ params.localSolarTimeAtDescendingNode >= 24
         THEN null
         ELSE IF line1Length # TLE_LINE_LENGTH \/ line2Length # TLE_LINE_LENGTH THEN null
         ELSE Some([inclinationDeg |-> ssoInclinationDeg(params.altitude),
                    raanDeg |-> ssoRaanDeg(params.localSolarTimeAtDescendingNode,
                                           sunRaEpochDeg)])
    ELSE IF params.type = "NonPolar"
    THEN LET raanDeg == IF params.raan # null THEN valueOf(params.raan) ELSE 0
         IN  IF params.inclination < 0 \/ params.inclination > 180 * DegDenominator THEN null
             ELSE IF raanDeg < 0 \/ raanDeg >= 360 * DegDenominator THEN null
             ELSE IF line1Length # TLE_LINE_LENGTH \/ line2Length # TLE_LINE_LENGTH THEN null
             ELSE Some([inclinationDeg |-> params.inclination, raanDeg |-> raanDeg])
    ELSE null

\* the element lines that reach satellite.twoline2satrec, or null when the
\* creator returns before that call (simulationEngine.ts 47-51 chooses the
\* creator; orbitCalculation.ts 201-224 and 251-268)
linesForTwoline2satrec(params, sunRaEpochDeg) ==
    IF params.type = "SunSynchronous"
    THEN IF sunSynchronousInputRejected(params) THEN null
         ELSE createTLEStringsFromBeaconParams(params, sunRaEpochDeg)
    ELSE IF nonPolarInputRejected(params) THEN null
         ELSE createTLEStringsFromBeaconParams(params, sunRaEpochDeg)

BeaconInit ==
    /\ engineIdle
    /\ call \in [fn : {"beaconSynthesis"},
                 beaconParams : BeaconParams,
                 sunRaEpochDeg : SunRightAscensions,
                 returned : {FALSE},
                 tle : {null},               \* the lines handed to twoline2satrec
                 beaconSatRec : {null},
                 thrown : {null}]

\* the creator returns null without calling twoline2satrec; runSimulation throws
BeaconSynthesisRejected ==
    /\ call.fn = "beaconSynthesis"
    /\ ~call.returned
    /\ linesForTwoline2satrec(call.beaconParams, call.sunRaEpochDeg) = null
    /\ call' = [call EXCEPT !.returned = TRUE,
                   !.thrown = Some("Failed to initialize Beacon satellite record")]
    /\ UNCHANGED engineVars

\* twoline2satrec reports an error or throws; runSimulation throws
BeaconSatRecError ==
    /\ call.fn = "beaconSynthesis"
    /\ ~call.returned
    /\ linesForTwoline2satrec(call.beaconParams, call.sunRaEpochDeg) # null
    /\ call' = [call EXCEPT !.returned = TRUE,
                   !.tle = linesForTwoline2satrec(call.beaconParams, call.sunRaEpochDeg),
                   !.thrown = Some("Failed to initialize Beacon satellite record")]
    /\ UNCHANGED engineVars

\* twoline2satrec returns a record without error
BeaconSatRecInitialized_unvalidated ==
    /\ call.fn = "beaconSynthesis"
    /\ ~call.returned
    /\ call' = [call EXCEPT !.returned = TRUE,
                   !.tle = Some([inclinationDeg |-> 0, raanDeg |-> 0]),
                   !.beaconSatRec = Some("BEACON")]
    /\ UNCHANGED engineVars

BeaconSatRecInitialized ==
    /\ call.fn = "beaconSynthesis"
    /\ ~call.returned
    /\ linesForTwoline2satrec(call.beaconParams, call.sunRaEpochDeg) # null
    /\ call' = [call EXCEPT !.returned = TRUE,
                   !.tle = linesForTwoline2satrec(call.beaconParams, call.sunRaEpochDeg),
                   !.beaconSatRec = Some("BEACON")]
    /\ UNCHANGED engineVars

BeaconNext ==
    \/ BeaconSynthesisRejected
    \/ BeaconSatRecError
    \/ BeaconSatRecInitialized

BeaconSpec == BeaconInit /\ [][BeaconNext]_vars

\* some parameter of the orbit lies outside its declared range
someParameterOutOfRange(params) ==
    \/ params.altitude <= 0
    \/ /\ params.type = "NonPolar"
       /\ ~(0 <= params.inclination /\ params.inclination <= 180 * DegDenominator)
    \/ /\ params.type = "NonPolar"
       /\ params.raan # null
       /\ ~(0 <= valueOf(params.raan) /\ valueOf(params.raan) < 360 * DegDenominator)
    \/ /\ params.type = "SunSynchronous"
       /\ ~(0 <= params.localSolarTimeAtDescendingNode
            /\ params.localSolarTimeAtDescendingNode < 24)

\* C18: Beacon synthesis returns null, and runSimulation aborts, whenever the
\* altitude is <= 0, the inclination is outside [0, 180], the RAAN is outside
\* [0, 360) or the local solar time is outside [0, 24), and then no element
\* lines reach the propagator library; parameters inside the ranges are not
\* rejected by the validation, so their lines do reach it.
C18_OutOfRangeBeaconRejectedBeforePropagator ==
    (call.fn = "beaconSynthesis" /\ call.returned) =>
        /\ someParameterOutOfRange(call.beaconParams) =>
              (call.beaconSatRec = null /\ call.thrown # null /\ call.tle = null)
        /\ ~someParameterOutOfRange(call.beaconParams) => call.tle # null

\* a non-polar Beacon whose only fault is a RAAN of exactly 360 degrees
C18_Witness ==
    /\ call.fn = "beaconSynthesis"
    /\ call.returned
    /\ call.beaconParams.type = "NonPolar"
    /\ call.beaconParams.altitude = 500
    /\ call.beaconParams.inclination = 1800
    /\ call.beaconParams.raan = Some(3600)
    /\ call.beaconSatRec = null
    /\ call.thrown # null

\* C19: a sun-synchronous Beacon gets inclination 97.4 degrees below 500 km,
\* 99.5 degrees above 1000 km and 98.6 degrees otherwise; the altitudes 500 km
\* and 1000 km themselves get 98.6 degrees.
C19_SunSynchronousInclinationBands ==
    (/\ call.fn = "beaconSynthesis"
     /\ call.returned
     /\ call.beaconParams.type = "SunSynchronous"
     /\ call.tle # null) =>
        LET altitude == call.beaconParams.altitude
            inclination == valueOf(call.tle).inclinationDeg
        IN  /\ altitude < 500 => inclination = 974
            /\ altitude > 1000 => inclination = 995
            /\ (500 <= altitude /\ altitude <= 1000) => inclination = 986

\* the boundary altitude 1000 km with the nominal inclination
C19_Witness ==
    /\ call.fn = "beaconSynthesis"
    /\ call.returned
    /\ call.beaconParams.type = "SunSynchronous"
    /\ call.beaconParams.altitude = 1000
    /\ call.tle # null
    /\ valueOf(call.tle).inclinationDeg = 986
    /\ call.beaconSatRec # null

\* =========================================================================
\* parseTleFile (tleService, src/unnamed/part_005 lines 183-225)
\* =========================================================================
\* A raw line is known by what the parser looks at: how it starts once
\* trimmed, how long it is once trimmed, and how much whitespace surrounds
\* it.  A raw text is its sequence of raw lines; the text "" is one empty
\* line, and null stands for content that is not a string.
MaxLines == 4         \* longest raw text, in lines

RawLines ==
    { [padding |-> 0, start |-> "",   length |-> 0],      \* empty
      [padding |-> 1, start |-> "",   length |-> 0],      \* whitespace only
      [padding |-> 0, start |-> "IR", length |-> 9],      \* a satellite name
      [padding |-> 0, start |-> "<",  length |-> 15],     \* an HTML tag
      [padding |-> 0, start |-> "1 ", length |-> 69],
      [padding |-> 1, start |-> "1 ", length |-> 69],     \* 69 characters inside blanks
      [padding |-> 0, start |-> "1 ", length |-> 68],
      [padding |-> 0, start |-> "2 ", length |-> 69],
      [padding |-> 0, start |-> "2 ", length |-> 70] }

\* every text of up to MaxLines lines, and the longer texts made of two
\* records with different names and up to one line of any kind before,
\* between and after them
RawTexts ==
    LET record(nameLength) ==
            << [padding |-> 0, start |-> "IR", length |-> nameLength],
               [padding |-> 0, start |-> "1 ", length |-> 69],
               [padding |-> 0, start |-> "2 ", length |-> 69] >>
        UpToOneLine == {<<>>} \cup {<<l>> : l \in RawLines}
    IN  {null}
        \cup {Some(t) : t \in SeqsUpTo(RawLines, MaxLines) \ {<<>>}}
        \cup {Some(before \o record(9) \o between \o record(11) \o after) :
                 before \in UpToOneLine, between \in UpToOneLine, after \in UpToOneLine}

\* String.prototype.trim on one line
trim(line) == [padding |-> 0, start |-> line.start, length |-> line.length]
isBlank(line) == line.length = 0
startsWith(line, prefix) == line.start = prefix

\* line 184: !tleFileContent || typeof tleFileContent !== 'string'
invalidContent(content) ==
    IF content = null THEN TRUE
    ELSE valueOf(content) = << [padding |-> 0, start |-> "", length |-> 0] >>

\* line 188: tleFileContent.trim().split(/\r?\n/) -- blank lines at both ends
\* go with the surrounding whitespace; a text of blanks only leaves one ""
RECURSIVE dropLeadingBlank(_)
dropLeadingBlank(ls) ==
    IF ls = <<>> THEN <<>>
    ELSE IF isBlank(Head(ls)) THEN dropLeadingBlank(Tail(ls))
    ELSE ls

RECURSIVE dropTrailingBlank(_)
dropTrailingBlank(ls) ==
    IF ls = <<>> THEN <<>>
    ELSE IF isBlank(ls[Len(ls)]) THEN dropTrailingBlank(SubSeq(ls, 1, Len(ls) - 1))
    ELSE ls

trimAndSplit(text) ==
    LET kept == dropTrailingBlank(dropLeadingBlank(text))
    IN  IF kept = <<>> THEN << [padding |-> 0, start |-> "", length |-> 0] >>
        ELSE kept

\* line 196: the line cannot be a name line
notANameLine(nameLine) ==
    \/ isBlank(nameLine)
    \/ startsWith(nameLine, "1 ") \/ startsWith(nameLine, "2 ") \/ startsWith(nameLine, "<")

\* lines 205-206
validTlePair_anyLength(line1, line2) ==
    /\ ~isBlank(line1) /\ startsWith(line1, "1 ")
    /\ ~isBlank(line2) /\ startsWith(line2, "2 ")

validTlePair(line1, line2) ==
    /\ ~isBlank(line1) /\ startsWith(line1, "1 ") /\ line1.length = 69
    /\ ~isBlank(line2) /\ startsWith(line2, "2 ") /\ line2.length = 69

\* lines[i] of the source, whose indices start at 0
lineAt(i) == call.lines[i + 1]

ParseInit ==
    /\ engineIdle
    /\ call \in [fn : {"parseTleFile"}, tleFileContent : RawTexts,
                 pc : {"entry"}, lines : {<<>>}, i : {0}, tles : {<<>>}]

\* lines 184-187
ParseInvalidContent ==
    /\ call.fn = "parseTleFile" /\ call.pc = "entry"
    /\ invalidContent(call.tleFileContent)
    /\ call' = [call EXCEPT !.pc = "returned"]
    /\ UNCHANGED engineVars

\* lines 188-190
ParseSplit ==
    /\ call.fn = "parseTleFile" /\ call.pc = "entry"
    /\ ~invalidContent(call.tleFileContent)
    /\ call' = [call EXCEPT !.pc = "while",
                            !.lines = trimAndSplit(valueOf(call.tleFileContent))]
    /\ UNCHANGED engineVars

\* lines 191-199
ParseSkipLine ==
    /\ call.fn = "parseTleFile" /\ call.pc = "while"
    /\ call.i < Len(call.lines)
    /\ notANameLine(trim(lineAt(call.i)))
    /\ call' = [call EXCEPT !.i = call.i + 1]
    /\ UNCHANGED engineVars

\* lines 191-212
ParseTriple ==
    /\ call.fn = "parseTleFile" /\ call.pc = "while"
    /\ call.i < Len(call.lines)
    /\ ~notANameLine(trim(lineAt(call.i)))
    /\ call.i + 2 < Len(call.lines)
    /\ validTlePair(trim(lineAt(call.i + 1)), trim(lineAt(call.i + 2)))
    /\ call' = [call EXCEPT !.tles = Append(call.tles,
                                [name |-> trim(lineAt(call.i)),
                                 line1 |-> trim(lineAt(call.i + 1)),
                                 line2 |-> trim(lineAt(call.i + 2))]),
                            !.i = call.i + 3]
    /\ UNCHANGED engineVars

\* lines 191-206, 213-218
ParseNoPair_skipsThreeLines ==
    /\ call.fn = "parseTleFile" /\ call.pc = "while"
    /\ call.i < Len(call.lines)
    /\ ~notANameLine(trim(lineAt(call.i)))
    /\ call.i + 2 < Len(call.lines)
    /\ ~validTlePair(trim(lineAt(call.i + 1)), trim(lineAt(call.i + 2)))
    /\ call' = [call EXCEPT !.i = call.i + 3]
    /\ UNCHANGED engineVars

ParseNoPair ==
    /\ call.fn = "parseTleFile" /\ call.pc = "while"
    /\ call.i < Len(call.lines)
    /\ ~notANameLine(trim(lineAt(call.i)))
    /\ call.i + 2 < Len(call.lines)
    /\ ~validTlePair(trim(lineAt(call.i + 1)), trim(lineAt(call.i + 2)))
    /\ call' = [call EXCEPT !.i = call.i + 1]
    /\ UNCHANGED engineVars

\* lines 191-202, 219-224
ParseBreak ==
    /\ call.fn = "parseTleFile" /\ call.pc = "while"
    /\ call.i < Len(call.lines)
    /\ ~notANameLine(trim(lineAt(call.i)))
    /\ ~(call.i + 2 < Len(call.lines))
    /\ call' = [call EXCEPT !.pc = "returned"]
    /\ UNCHANGED engineVars

\* lines 191, 224
ParseReturn ==
    /\ call.fn = "parseTleFile" /\ call.pc = "while"
    /\ ~(call.i < Len(call.lines))
    /\ call' = [call EXCEPT !.pc = "returned"]
    /\ UNCHANGED engineVars

ParseNext ==
    \/ ParseInvalidContent
    \/ ParseSplit
    \/ ParseSkipLine
    \/ ParseTriple
    \/ ParseNoPair
    \/ ParseBreak
    \/ ParseReturn

ParseSpec == ParseInit /\ [][ParseNext]_vars

\* parseTleFile is synchronous code: a step that can be taken is taken
ParseLiveSpec == ParseSpec /\ WF_vars(ParseNext)

\* C20: on every raw text parseTleFile terminates, and every record it
\* returns is a non-empty name line followed by a line1 of exactly 69
\* characters starting with "1 " and a line2 of exactly 69 characters starting
\* with "2 ", three consecutive lines of the text; whatever does not form
\* such a triple is passed over and the parse still returns.
C20_ParsedRecordsAreWellFormedTriples ==
    /\ [] (call.fn = "parseTleFile" =>
             \A k \in 1..Len(call.tles) :
                 LET tle == call.tles[k]
                 IN  /\ tle.name.length > 0
                     /\ tle.line1.start = "1 " /\ tle.line1.length = 69
                     /\ tle.line2.start = "2 " /\ tle.line2.length = 69
                     /\ \E j \in 1..(Len(call.lines) - 2) :
                            /\ tle.name = trim(call.lines[j])
                            /\ tle.line1 = trim(call.lines[j + 1])
                            /\ tle.line2 = trim(call.lines[j + 2]))
    /\ <>(call.fn = "parseTleFile" /\ call.pc = "returned")

\* a text of four lines, one of them a line 1 of 68 characters, from which
\* exactly one record was returned
C20_Witness ==
    /\ call.fn = "parseTleFile"
    /\ call.pc = "returned"
    /\ Len(call.tles) = 1
    /\ Len(call.lines) = 4
    /\ call.lines[1] = [padding |-> 0, start |-> "1 ", length |-> 68]
    /\ call.tles[1].line1 = [padding |-> 0, start |-> "1 ", length |-> 69]

\* =========================================================================
\* fetchIridiumTLEs (tleService, src/unnamed/part_005 lines 122-173)
\* =========================================================================
\* One request per requested dataset, in order.  A request either rejects
\* (network error, timeout, HTTP error status: the catch of lines 142-153) or
\* resolves with a body that parseTleFile turns into a list of records,
\* possibly an empty one.  Every await sits inside the try, so the function
\* has no rejecting path of its own.
MaxDatasets == 2      \* longest datasetsToFetch

\* lines 159-165
fallbackTles ==
    << [name |-> "IRIDIUM 1 (FALLBACK)", line1 |-> "1 24792U", line2 |-> "2 24792"] >>

\* lines 157-172: what the function returns once the loop is over
fetchReturnValue_neverFallsBack(allTles, hasSuccessfullyFetchedAnyData) ==
    allTles

fetchReturnValue(allTles, hasSuccessfullyFetchedAnyData) ==
    IF ~hasSuccessfullyFetchedAnyData /\ Len(allTles) = 0
    THEN fallbackTles
    ELSE allTles

\* `requests' keeps, per dataset already asked for, how its request ended
FetchInit ==
    /\ engineIdle
    /\ call \in [fn : {"fetchIridiumTLEs"},
                 datasetsToFetch : SeqsUpTo({"IRIDIUM", "IRIDIUM-NEXT"}, MaxDatasets),
                 pc : {"for"}, requests : {<<>>}, allTles : {<<>>},
                 hasSuccessfullyFetchedAnyData : {FALSE}, returned : {null}]

\* lines 128-133, 142-153: axios.get rejects, the catch logs and the loop goes on
FetchRequestRejected ==
    /\ call.fn = "fetchIridiumTLEs" /\ call.pc = "for"
    /\ Len(call.requests) < Len(call.datasetsToFetch)
    /\ call' = [call EXCEPT !.requests = Append(call.requests, "rejected")]
    /\ UNCHANGED engineVars

\* lines 128-141: axios.get resolves and parseTleFile hands back the records
\* of the body, possibly none
FetchRequestResolved ==
    /\ call.fn = "fetchIridiumTLEs" /\ call.pc = "for"
    /\ Len(call.requests) < Len(call.datasetsToFetch)
    /\ \E parsedTles \in
          { <<>>,
            << [name |-> "IRIDIUM 7", line1 |-> "1 24793U", line2 |-> "2 24793"] >>,
            << [name |-> "IRIDIUM 7", line1 |-> "1 24793U", line2 |-> "2 24793"],
               [name |-> "IRIDIUM 106", line1 |-> "1 41917U", line2 |-> "2 41917"] >> } :
         call' = [call EXCEPT
                    !.requests = Append(call.requests, "resolved"),
                    !.allTles = IF Len(parsedTles) > 0
                                THEN call.allTles \o parsedTles
                                ELSE call.allTles,
                    !.hasSuccessfullyFetchedAnyData =
                                IF Len(parsedTles) > 0
                                THEN TRUE
                                ELSE call.hasSuccessfullyFetchedAnyData]
    /\ UNCHANGED engineVars

\* lines 128, 155-172
FetchReturn ==
    /\ call.fn = "fetchIridiumTLEs" /\ call.pc = "for"
    /\ ~(Len(call.requests) < Len(call.datasetsToFetch))
    /\ call' = [call EXCEPT
                  !.pc = "resolved",
                  !.returned = Some(fetchReturnValue(call.allTles,
                                        call.hasSuccessfullyFetchedAnyData))]
    /\ UNCHANGED engineVars

FetchNext ==
    \/ FetchRequestRejected
    \/ FetchRequestResolved
    \/ FetchReturn

FetchSpec == FetchInit /\ [][FetchNext]_vars

\* C21: when the request of every requested dataset rejects, the call
\* resolves to the list holding exactly the one fallback element set, and
\* that list passes runSimulation's emptiness test of line 62 with a single
\* satellite; the call never reaches a state other than looping or resolved.
C21_AllFetchesFailedGivesTheFallback ==
    call.fn = "fetchIridiumTLEs" =>
        /\ call.pc \in {"for", "resolved"}
        /\ (/\ call.pc = "resolved"
            /\ \A k \in 1..Len(call.requests) : call.requests[k] = "rejected")
           => /\ call.returned = Some(fallbackTles)
              /\ Len(valueOf(call.returned)) = 1

C21_Witness ==
    /\ call.fn = "fetchIridiumTLEs" /\ call.pc = "resolved"
    /\ Len(call.datasetsToFetch) = 2
    /\ call.requests = <<"rejected", "rejected">>
    /\ call.returned = Some(fallbackTles)

\* C28: when some request resolved yet nothing was parsed from any source,
\* the call returns the empty list, and it returns the fallback only when
\* every request rejected.  The code returns the fallback in the first case
\* too: the flag of line 124 is set only by a non-empty parse, so the branch
\* of lines 166-170 is never taken.
C28_NoFallbackAfterASuccessfulRequest ==
    (call.fn = "fetchIridiumTLEs" /\ call.pc = "resolved") =>
        LET someResolved == \E k \in 1..Len(call.requests) :
                                call.requests[k] = "resolved"
        IN  /\ (someResolved /\ call.allTles = <<>>)
                  => call.returned = Some(<<>>)
            /\ call.returned = Some(fallbackTles) => ~someResolved

\* =========================================================================
\* OrbitInputForm.handleSubmit (src/unnamed/part_002 lines 69-152), the only
\* caller that hands a SimulationConfig to runSimulation (App, part_006
\* line 106), and the half-angles runSimulation derives from it
\* =========================================================================
\* A form field after parseFloat is a number or NaN; NaN is null here.
\* Fields of view are whole even degrees, so that the half-angle is whole.
\* lines 76-125: TRUE when some check alerts and returns
validationAlerts_fovUnbounded(form) ==
    LET notPositive(num) == IF num = null THEN TRUE ELSE valueOf(num) <= 0
    IN  \/ notPositive(form.altitude)
        \/ notPositive(form.iridiumFovDeg)
        \/ notPositive(form.beaconFovDeg)
        \/ notPositive(form.simulationDurationHours)
        \/ notPositive(form.simulationTimeStepSec)
        \/ form.selectedDatasets = {}
        \/ IF form.orbitType = "SunSynchronous"
           THEN valueOf(form.localSolarTime) < 0 \/ valueOf(form.localSolarTime) >= 24
           ELSE valueOf(form.inclination) < 0 \/ valueOf(form.inclination) > 180

validationAlerts(form) ==
    LET notPositive(num) == IF num = null THEN TRUE ELSE valueOf(num) <= 0
        invalidFov(num) == IF num = null THEN TRUE
                           ELSE valueOf(num) <= 0 \/ valueOf(num) > 180
    IN  \/ notPositive(form.altitude)
        \/ invalidFov(form.iridiumFovDeg)
        \/ invalidFov(form.beaconFovDeg)
        \/ notPositive(form.simulationDurationHours)
        \/ notPositive(form.simulationTimeStepSec)
        \/ form.selectedDatasets = {}
        \/ IF form.orbitType = "SunSynchronous"
           THEN valueOf(form.localSolarTime) < 0 \/ valueOf(form.localSolarTime) >= 24
           ELSE valueOf(form.inclination) < 0 \/ valueOf(form.inclination) > 180

FormInit ==
    /\ engineIdle
    /\ LET FovFields == {null} \cup {Some(n) : n \in {-2, 0, 2, 120, 180, 182}}
       IN  call \in [fn : {"handleSubmit"}, pc : {"editing"},
                     config : {null}, cones : {{}},
                     form : [altitude : {null, Some(0), Some(550)},
                             iridiumFovDeg : FovFields,
                             beaconFovDeg : FovFields,
                             simulationDurationHours : {Some(0), Some(24)},
                             simulationTimeStepSec : {null, Some(60)},
                             selectedDatasets : {{}, {"IRIDIUM"}},
                             orbitType : {"SunSynchronous", "NonPolar"},
                             localSolarTime : {Some(-1), Some(10), Some(24)},
                             inclination : {Some(98), Some(181)},
                             handshakeMode : HandshakeModes]]

\* lines 69-152: alert and return, or onSubmit(fullConfig)
HandleSubmit ==
    /\ call.fn = "handleSubmit" /\ call.pc = "editing"
    /\ call' = IF validationAlerts(call.form)
               THEN [call EXCEPT !.pc = "alerted"]
               ELSE [call EXCEPT
                       !.pc = "submitted",
                       !.config = Some([iridiumFovDeg |-> valueOf(call.form.iridiumFovDeg),
                                        beaconFovDeg |-> valueOf(call.form.beaconFovDeg),
                                        handshakeMode |-> call.form.handshakeMode])]
    /\ UNCHANGED engineVars

\* simulationEngine.ts lines 80-88 with 171, 185 and 190: the cones one step
\* of the run constructs for a Beacon and an Iridium satellite
ConesConstructed ==
    /\ call.fn = "handleSubmit" /\ call.pc = "submitted"
    /\ \E beaconPos \in {vec(1, 0, 0), vec(0, 1, 1)}, iridiumPos \in {vec(0, 0, 1)},
          beaconVel \in Velocities, iridiumVel \in Velocities :
         LET cfg == valueOf(call.config)
             iridiumNadirHalfAngle == halfAngleOf(cfg.iridiumFovDeg)
             beaconHorizonHalfAngle == halfAngleOf(cfg.beaconFovDeg)
             iridiumHorizonScanningHalfAngle == halfAngleOf(cfg.iridiumFovDeg)
             cones(list) == {list[k] : k \in 1..Len(list)}
         IN  call' = [call EXCEPT
                 !.pc = "running",
                 !.cones =
                     IF cfg.handshakeMode = "one-way"
                     THEN {createIridiumCone(iridiumPos, iridiumNadirHalfAngle)}
                     ELSE cones(createHorizonAlignedAntennaCones(
                                  iridiumPos, iridiumVel,
                                  iridiumHorizonScanningHalfAngle))
                          \cup cones(createHorizonAlignedAntennaCones(
                                  beaconPos, beaconVel, beaconHorizonHalfAngle))]
    /\ UNCHANGED engineVars

FormNext ==
    \/ HandleSubmit
    \/ ConesConstructed

FormSpec == FormInit /\ [][FormNext]_vars

\* C22: a configuration reaches runSimulation only through a submit that
\* passed the form's checks, and every cone the run constructs from it (the
\* Iridium nadir cone, the Iridium and the Beacon horizon cones) has a
\* half-angle greater than 0 and at most 90 degrees.
C22_ConeHalfAnglesWithinZeroAndNinety ==
    call.fn = "handleSubmit" =>
        /\ call.config # null =>
              /\ ~validationAlerts(call.form)
              /\ \A fov \in {valueOf(call.config).iridiumFovDeg,
                             valueOf(call.config).beaconFovDeg} :
                    0 < fov /\ fov <= 180
        /\ \A cone \in call.cones : 0 < cone.halfAngle /\ cone.halfAngle <= 90
        /\ call.pc = "running" => call.cones # {}

C22_Witness ==
    /\ call.fn = "handleSubmit" /\ call.pc = "running"
    /\ valueOf(call.config).handshakeMode = "bi-directional"
    /\ valueOf(call.config).iridiumFovDeg = 2
    /\ valueOf(call.config).beaconFovDeg = 180
    /\ \E c1 \in call.cones : c1.halfAngle = 1
    /\ \E c2 \in call.cones : c2.halfAngle = 90

\* =========================================================================
\* propagateSatellite (orbitCalculation.ts lines 37-88)
\* =========================================================================
\* satellite.propagate is the library's: it throws, returns false, or returns
\* an object whose position and velocity are a vector or missing.  A vector
\* component is known by its kind: an ordinary number, NaN, an infinity, or
\* null/undefined.
propagateSatellite(satrec, positionAndVelocity) ==
    LET isNaN(component) == component = "NaN"
        position == positionAndVelocity.position
        velocity == positionAndVelocity.velocity
    IN  IF satrec = null THEN null                                 \* line 44
        ELSE IF positionAndVelocity.kind = "throws" THEN null      \* lines 84-87
        ELSE IF \/ positionAndVelocity.kind = "false"              \* lines 52-53
                \/ position = null                                 \* line 54
                \/ velocity = null                                 \* line 55
             THEN null
        ELSE IF \E k \in 1..3 :                                    \* lines 56-58
                    \/ valueOf(position)[k] = "null"
                    \/ isNaN(valueOf(position)[k])
             THEN null
        ELSE Some([positionEci |-> valueOf(position),              \* lines 66-82
                   velocityEci |-> valueOf(velocity)])

PropagateInit ==
    /\ engineIdle
    /\ LET Kinds == {"number", "NaN", "Infinity"}
           Positions == {null} \cup {Some(v) : v \in [1..3 -> Kinds \cup {"null"}]}
           Velocities3 == {null} \cup {Some(v) : v \in [1..3 -> Kinds]}
       IN  call \in
             [fn : {"propagateSatellite"}, satrec : {Some("satrec")},
              positionAndVelocity : [kind : {"value"}, position : Positions,
                                     velocity : Velocities3],
              returned : {"pending"}, result : {null}]
             \cup
             [fn : {"propagateSatellite"}, satrec : {null, Some("satrec")},
              positionAndVelocity : [kind : {"throws", "false"},
                                     position : {null}, velocity : {null}],
              returned : {"pending"}, result : {null}]

\* lines 37-88: the call returns, null or a result; no path lets an exception out
CallPropagateSatellite ==
    /\ call.fn = "propagateSatellite" /\ call.returned = "pending"
    /\ call' = [call EXCEPT
                  !.returned = "returned",
                  !.result = propagateSatellite(call.satrec, call.positionAndVelocity)]
    /\ UNCHANGED engineVars

PropagateNext == CallPropagateSatellite

PropagateSpec == PropagateInit /\ [][PropagateNext]_vars

\* C23: the call returns (never throws); it returns null whenever the
\* library reports failure or some coordinate of the position or of the
\* velocity is not finite, and a result only when all six are finite.  The
\* code tests the position for null and NaN only, so an infinite position
\* component or a non-finite velocity component comes back as a result.
C23_NullUnlessAllCoordinatesFinite ==
    (call.fn = "propagateSatellite" /\ call.returned = "returned") =>
        LET pv == call.positionAndVelocity
            allFinite ==
                /\ call.satrec # null
                /\ pv.kind = "value" /\ pv.position # null /\ pv.velocity # null
                /\ \A k \in 1..3 : /\ valueOf(pv.position)[k] = "number"
                                   /\ valueOf(pv.velocity)[k] = "number"
        IN  call.result # null <=> allFinite

\* ----------------------------------------------- the horizon cones of a step
\* C24: for a satellite away from the Earth's centre the constructor hands
\* back exactly two cones, both with the satellite as tip and the requested
\* half-angle, whose axes are unit vectors, exact opposites, and orthogonal
\* to the position, also when the velocity is radial and the axis comes from
\* the fallback direction; the list is empty only for the zero position.
C24_TwoOppositeHorizontalCones ==
    (linkDecided /\ call.config.handshakeMode = "bi-directional"
                 /\ call.iridiumPropagation # null) =>
        LET wellFormed(cones, position, halfAngle) ==
                /\ cones = <<>> <=> magnitudeSq(position).n = 0
                /\ cones # <<>> =>
                     /\ Len(cones) = 2
                     /\ \A k \in 1..2 :
                          /\ cones[k].tip = position
                          /\ cones[k].halfAngle = halfAngle
                          /\ isUnit(cones[k].axis)
                          /\ dotProduct(cones[k].axis, position).n = 0
                     /\ cones[1].axis.d = cones[2].axis.d
                     /\ cones[1].axis.x = -cones[2].axis.x
                     /\ cones[1].axis.y = -cones[2].axis.y
                     /\ cones[1].axis.z = -cones[2].axis.z
        IN  /\ wellFormed(valueOf(call.iridiumHorizonCones), iridium.positionEci,
                          halfAngleOf(call.config.iridiumFovDeg))
            /\ wellFormed(valueOf(call.beaconHorizonCones), beacon.positionEci,
                          halfAngleOf(call.config.beaconFovDeg))

\* a satellite on the x axis moving radially: the fallback direction is used
C24_Witness ==
    /\ linkDecided /\ call.config.handshakeMode = "bi-directional"
    /\ call.iridiumPropagation # null
    /\ iridium.positionEci = vec(1, 0, 0) /\ iridium.velocityEci = vec(1, 0, 0)
    /\ beacon.positionEci = vec(0, 0, -1) /\ beacon.velocityEci = vec(0, 0, 1)
    /\ Len(valueOf(call.iridiumHorizonCones)) = 2
    /\ Len(valueOf(call.beaconHorizonCones)) = 2

\* C25: in bi-directional mode, when the constructor hands back an empty
\* list for the Beacon or for the satellite, the pair's link is inactive at
\* the step, no handshake is recorded for it, and the evaluation of the pair
\* completes as for any other pair.
C25_EmptyConeListMeansNoLink ==
    (/\ linkDecided /\ call.config.handshakeMode = "bi-directional"
     /\ call.iridiumPropagation # null
     /\ \/ call.iridiumHorizonCones = Some(<<>>)
        \/ call.beaconHorizonCones = Some(<<>>)) =>
        /\ call.canCommunicate = Some(FALSE)
        /\ ~linkMade
        /\ call.handshakeLog = <<>>
        /\ call.returned

\* the Beacon's list is empty although the Beacon is in a cone of the
\* satellite and the line of sight is clear
C25_Witness ==
    /\ linkDecided /\ call.config.handshakeMode = "bi-directional"
    /\ call.iridiumPropagation # null
    /\ call.beaconHorizonCones = Some(<<>>)
    /\ call.iridiumHorizonCones # Some(<<>>)
    /\ beaconSeenByIridium
    /\ losClear
    /\ ~linkMade

\* C26: the value the short-circuited evaluation leaves in canCommunicate at
\* line 202 equals the conjunction of the two cone checks, each carried out
\* on its list of cones whether or not the other one succeeded.
C26_ShortCircuitEqualsConjunction ==
    (linkDecided /\ call.config.handshakeMode = "bi-directional"
                 /\ call.iridiumPropagation # null) =>
        LET someConeHolds(cones, point) ==
                \E k \in 1..Len(cones) : isPointInCone(point, cones[k])
        IN  call.conesAgree =
              Some(/\ someConeHolds(valueOf(call.iridiumHorizonCones), beacon.positionEci)
                   /\ someConeHolds(valueOf(call.beaconHorizonCones), iridium.positionEci))

\* the second check was skipped and would have succeeded
C26_Witness ==
    /\ linkDecided /\ call.config.handshakeMode = "bi-directional"
    /\ call.iridiumPropagation # null
    /\ ~beaconSeenByIridium
    /\ iridiumSeenByBeacon
    /\ call.conesAgree = Some(FALSE)

\* ----------------------------------------------- tangent lines of sight
\* C27: the answer is clear whenever the line through the two points misses
\* the sphere or only touches it, that is, whenever the discriminant is
\* negative or zero.  The code returns early for a negative discriminant
\* only: a line touching the sphere between two outside points is blocked.
C27_ClearWhenLineMissesOrTouches ==
    (/\ call.fn = "isLineOfSightClear" /\ call.returned # null
     /\ quadratic(call).a > 0
     /\ quadratic(call).discriminant <= 0)
        => call.returned = Some(TRUE)

\* ------------------------------------------------ every record is found
\* C29: the parse returns, in the order of the text, the record of every
\* three consecutive lines that are, once trimmed, a name line (not empty,
\* not starting with "1 ", "2 " or "<"), a 69-character line starting "1 "
\* and a 69-character line starting "2 ", whatever lines stand before,
\* between or after them; at no moment are there more records than a third
\* of the lines.
C29_EveryWellFormedTripleIsReturned ==
    (call.fn = "parseTleFile" /\ call.tleFileContent # null) =>
        LET text == valueOf(call.tleFileContent)
            wellFormedAt(j) ==
                /\ trim(text[j]).length > 0
                /\ trim(text[j]).start \notin {"1 ", "2 ", "<"}
                /\ trim(text[j + 1]).start = "1 " /\ trim(text[j + 1]).length = 69
                /\ trim(text[j + 2]).start = "2 " /\ trim(text[j + 2]).length = 69
            RECURSIVE recordsFrom(_)
            recordsFrom(j) ==
                IF j + 2 > Len(text) THEN <<>>
                ELSE IF wellFormedAt(j)
                     THEN << [name |-> trim(text[j]), line1 |-> trim(text[j + 1]),
                              line2 |-> trim(text[j + 2])] >> \o recordsFrom(j + 1)
                     ELSE recordsFrom(j + 1)
        IN  /\ 3 * Len(call.tles) <= Len(text)
            /\ call.pc = "returned" => call.tles = recordsFrom(1)

\* two records with a line between them, returned in the order of the text
C29_Witness ==
    /\ call.fn = "parseTleFile" /\ call.pc = "returned"
    /\ Len(call.lines) >= 7
    /\ Len(call.tles) = 2
    /\ call.tles[1].name.length = 9
    /\ call.tles[2].name.length = 11

\* ------------------------------------------------ the returned results
\* C30: in the results runSimulation returns, totalHandshakes is the length
\* of handshakeLog, numberOfBlackouts the length of blackoutPeriods, every
\* period's duration is (endTime - startTime) / 1000, totalBlackoutDuration
\* is the sum of the durations, and averageBlackoutDuration is that total
\* divided by the number of blackouts, or 0 when there is none.
C30_ResultsAreConsistent ==
    results # null =>
        LET r == valueOf(results)
            periods == r.blackoutPeriods
            RECURSIVE sumUpTo(_)
            sumUpTo(k) == IF k = 0 THEN 0 ELSE sumUpTo(k - 1) + periods[k].duration
            average == r.averageBlackoutDuration     \* numerator, denominator
        IN  /\ r.totalHandshakes = Len(r.handshakeLog)
            /\ r.numberOfBlackouts = Len(periods)
            /\ \A k \in 1..Len(periods) :
                  periods[k].duration * 1000 = periods[k].endTime - periods[k].startTime
            /\ r.totalBlackoutDuration = sumUpTo(Len(periods))
            /\ average[2] > 0
            /\ IF r.numberOfBlackouts = 0
               THEN average[1] = 0
               ELSE average[1] * r.numberOfBlackouts
                        = r.totalBlackoutDuration * average[2]

\* a run with a handshake between two blackouts, the second one closed
\* after the loop
C30_Witness ==
    /\ results # null
    /\ valueOf(results).totalHandshakes >= 1
    /\ valueOf(results).numberOfBlackouts = 2
    /\ valueOf(results).totalBlackoutDuration > 0
    /\ currentBlackout # null

\* ------------------------------------------------ tracks read by step index
\* C31: for every index i and every id in activeLinksLog[i], the track of
\* that satellite has an entry at index i whose timestamp is that of
\* beaconTrack[i], also after a step at which the satellite's propagation
\* failed.  The code appends to a satellite's track only at the steps at
\* which it propagated, so after such a step the track is shorter than the
\* Beacon's and its index i holds a later instant, or nothing.
C31_IridiumTrackAlignedWithBeaconIndex ==
    \A i \in 1..Len(activeLinksLog) :
        \A id \in activeLinksLog[i] :
            /\ id \in DOMAIN iridiumTracks
            /\ i <= Len(iridiumTracks[id])
            /\ i <= Len(beaconTrack)
            /\ iridiumTracks[id][i].timestamp = beaconTrack[i].timestamp

\* ------------------------------------------- blackouts against the link log
\* C32: in the returned results, for every index i, activeLinksLog[i] is
\* empty iff the timestamp of beaconTrack[i] lies in the half-open interval
\* [startTime, endTime) of some recorded BlackoutPeriod.
C32_EmptyLinkSetIffInsideABlackout ==
    results # null =>
        LET r == valueOf(results)
            periods == r.blackoutPeriods
            inBlackout(t) == \E k \in 1..Len(periods) :
                                /\ periods[k].startTime <= t
                                /\ t < periods[k].endTime
        IN  /\ Len(r.beaconTrack) = Len(r.activeLinksLog)
            /\ \A i \in 1..Len(r.activeLinksLog) :
                  (r.activeLinksLog[i] = {}) <=> inBlackout(r.beaconTrack[i].timestamp)

\* a finished run whose blackout was closed by a link and reopened, and
\* closed again after the loop
C32_Witness ==
    /\ results # null
    /\ Len(valueOf(results).activeLinksLog) = 3
    /\ valueOf(results).activeLinksLog[1] = {}
    /\ valueOf(results).activeLinksLog[2] # {}
    /\ valueOf(results).activeLinksLog[3] = {}
    /\ Len(valueOf(results).blackoutPeriods) = 2

\* C33: the blackoutPeriods list is in chronological order, each period
\* starts strictly later than the one before it ends, and every period ends
\* after it starts and lasts at least one timestep (the timestep is positive).
C33_BlackoutPeriodsOrderedDisjointAndLong ==
    /\ pc \in {"loop", "done"} => config.simulationTimeStepSec > 0
    /\ \A k \in 1..Len(blackoutPeriods) :
          /\ blackoutPeriods[k].endTime > blackoutPeriods[k].startTime
          /\ blackoutPeriods[k].duration >= config.simulationTimeStepSec
          /\ k > 1 => blackoutPeriods[k].startTime > blackoutPeriods[k - 1].endTime
    /\ results # null => valueOf(results).blackoutPeriods = blackoutPeriods

\* two periods with a linked step between them, the first closed by that
\* link, the second closed after the loop
C33_Witness ==
    /\ pc = "done"
    /\ Len(blackoutPeriods) = 2
    /\ blackoutPeriods[1].endTime < blackoutPeriods[2].startTime
    /\ blackoutPeriods[2].endTime = currentTime

\* ------------------------------------------------ link continuity over failures
\* C34: a processed step at which the propagation of an Iridium satellite
\* fails counts as link-inactive for it: its id is not in that step's
\* activeLinksLog entry, and when its link is active at the next processed
\* step a new Handshake is recorded; a step skipped because Beacon
\* propagation failed does not break continuity: a link active at the
\* processed steps before and after it gets no new handshake.  Ids are TLE
\* names: a list position that failed is told from a namesake that was
\* linked at the same step by the recorded answers.
C34_IridiumFailureBreaksLinkBeaconFailureDoesNot ==
    [][ (iterationTaken /\ iterationEntry'.beacon) =>
          LET e == iterationEntry'
              p == processedSteps(propagationLog)
              failedAt(entry, id) ==
                  /\ \E i \in 1..Len(iridiumSatRecs) :
                        iridiumSatRecs[i] = id /\ ~propagationOk(entry.iridium[i])
                  /\ id \notin linkActive(entry)
              skippedJustBefore ==
                  /\ Len(propagationLog) >= 1
                  /\ ~iterationEntry.beacon
              added == SubSeq(handshakeLog', Len(handshakeLog) + 1, Len(handshakeLog'))
          IN \A id \in DOMAIN iridiumTracks :
               /\ failedAt(e, id) => id \notin activeLinksLog'[Len(activeLinksLog')]
               /\ (/\ p # <<>>
                   /\ failedAt(p[Len(p)], id)
                   /\ id \in linkActive(e))
                     => handshakesOf(added, id, currentTime) # {}
               /\ (/\ p # <<>>
                   /\ skippedJustBefore
                   /\ id \in linkActive(p[Len(p)])
                   /\ id \in linkActive(e))
                     => \A k \in 1..Len(added) : added[k].iridiumSatelliteId # id
    ]_vars

\* one satellite failed at the first step and is linked at the third, which
\* gives it a handshake there; the other one is linked at the first and the
\* third step, the second step was skipped, and it has its one handshake
C34_Witness ==
    /\ Len(propagationLog) = 3
    /\ Len(iridiumSatRecs) = 2
    /\ iridiumSatRecs[1] # iridiumSatRecs[2]
    /\ propagationLog[1].beacon /\ propagationLog[1].iridium = <<"fail", "link">>
    /\ ~propagationLog[2].beacon
    /\ propagationLog[3].beacon /\ propagationLog[3].iridium = <<"link", "link">>
    /\ activeLinksLog = << {iridiumSatRecs[2]}, {iridiumSatRecs[1], iridiumSatRecs[2]} >>
    /\ handshakeLog = << Handshake(propagationLog[1].time, iridiumSatRecs[2]),
                         Handshake(propagationLog[3].time, iridiumSatRecs[1]) >>

\* =========================================================================
\* CurrentConnectionsPanel (src/main/satmap/src/components/
\* CurrentConnectionsPanel.tsx lines 15-120)
\* =========================================================================
\* The panel is a function of its props.  A Set of ids is the sequence of its
\* members in insertion order, without repetition; Object.keys gives the ids
\* of iridiumTracks in insertion order; array indices start at 0.
MaxPanelSteps == 3    \* longest activeLinksLog handed to the panel

\* Array.prototype.sort on strings (lines 56 and 58): ascending code units
sort(ids) ==
    LET codeUnitOrder == << "IRIDIUM 106", "IRIDIUM 7" >>
        rank(id) == CHOOSE k \in 1..Len(codeUnitOrder) : codeUnitOrder[k] = id
        RECURSIVE insert(_, _)
        insert(id, sorted) ==
            IF sorted = <<>> THEN << id >>
            ELSE IF rank(id) <= rank(sorted[1]) THEN << id >> \o sorted
            ELSE << sorted[1] >> \o insert(id, Tail(sorted))
        RECURSIVE sortFrom(_)
        sortFrom(s) == IF s = <<>> THEN <<>> ELSE insert(s[1], sortFrom(Tail(s)))
    IN  sortFrom(ids)

\* lines 28-59: the three lists the panel renders
panelLists(res, currentTimeIndex) ==
    LET has(set, id) == \E k \in 1..Len(set) : set[k] = id
        activeLinksAtCurrentTime ==                                   \* line 29
            IF res # null /\ currentTimeIndex + 1 <= Len(valueOf(res).activeLinksLog)
            THEN valueOf(res).activeLinksLog[currentTimeIndex + 1]
            ELSE <<>>
        allIridiumIds == valueOf(res).iridiumTracks                   \* line 36
        log == valueOf(res).activeLinksLog
        everConnectedOverall(id) ==                                   \* lines 40-50
            \E i \in 0..Len(log) - 1 : has(log[i + 1], id)
        connectedBeforeCurrentTime(id) ==
            \E i \in 0..Len(log) - 1 : i < currentTimeIndex /\ has(log[i + 1], id)
    IN  [currentlyConnectedIds  |-> activeLinksAtCurrentTime,         \* line 30
         previouslyConnectedIds |->
             IF res = null THEN <<>>                                  \* lines 32, 35
             ELSE sort(SelectSeq(allIridiumIds,                       \* lines 53-56
                         LAMBDA id : /\ ~has(activeLinksAtCurrentTime, id)
                                     /\ connectedBeforeCurrentTime(id))),
         neverConnectedIds |->
             IF res = null THEN <<>>                                  \* lines 33, 35
             ELSE sort(SelectSeq(allIridiumIds,                       \* line 58
                         LAMBDA id : ~everConnectedOverall(id)))]

\* the props App passes (part_006 lines 340-343): the results of a run, whose
\* link sets hold ids of iridiumTracks, and a time index of the Beacon track
PanelInit ==
    /\ engineIdle
    /\ LET IdLists == {s \in SeqsUpTo(Names, Cardinality(Names)) :
                          \A i, j \in 1..Len(s) : i # j => s[i] # s[j]}
           Results == {null} \cup
               { Some([iridiumTracks |-> keys, activeLinksLog |-> log]) :
                   keys \in IdLists,
                   log \in SeqsUpTo(IdLists, MaxPanelSteps) }
       IN  \E res \in Results, isOpen \in BOOLEAN, index \in 0..MaxPanelSteps - 1 :
             /\ res # null =>
                  /\ \A k \in 1..Len(valueOf(res).activeLinksLog) :
                       \A n \in 1..Len(valueOf(res).activeLinksLog[k]) :
                          \E m \in 1..Len(valueOf(res).iridiumTracks) :
                             valueOf(res).iridiumTracks[m]
                                = valueOf(res).activeLinksLog[k][n]
                  /\ index = 0 \/ index < Len(valueOf(res).activeLinksLog)
             /\ res = null => index = 0
             /\ call = [fn |-> "CurrentConnectionsPanel", results |-> res,
                        currentTimeIndex |-> index, isOpen |-> isOpen,
                        pc |-> "props", rendered |-> null]

\* lines 24-117: nothing when closed, else the three lists
RenderPanel ==
    /\ call.fn = "CurrentConnectionsPanel" /\ call.pc = "props"
    /\ call' = [call EXCEPT
                  !.pc = "rendered",
                  !.rendered = IF ~call.isOpen THEN null
                               ELSE Some(panelLists(call.results,
                                                    call.currentTimeIndex))]
    /\ UNCHANGED engineVars

PanelNext == RenderPanel

PanelSpec == PanelInit /\ [][PanelNext]_vars

\* C35: at every time index the three lists of the panel (currently
\* connected, previously connected, never connected) are pairwise disjoint
\* and together hold every id of iridiumTracks exactly once.  The third list
\* leaves out every satellite connected at any step of the run, later ones
\* included, so a satellite whose first link comes after the current index
\* is in no list.
C35_ThreeListsPartitionTheIds ==
    (call.fn = "CurrentConnectionsPanel" /\ call.rendered # null
        /\ call.results # null) =>
        LET lists == valueOf(call.rendered)
            all == lists.currentlyConnectedIds \o lists.previouslyConnectedIds
                      \o lists.neverConnectedIds
            keys == valueOf(call.results).iridiumTracks
        IN  \A m \in 1..Len(keys) :
               Cardinality({k \in 1..Len(all) : all[k] = keys[m]}) = 1

====
